---- MODULE Spec2Model ----
(***************************************************************************)
(* growth-rs: placement optimiser (optimiser.rs), cluster-state assembly   *)
(* and reconcile engine (controller.rs), domain model (offering.rs),       *)
(* NodeRequest resource (node_request.rs) and fake provider (fake.rs).     *)
(*                                                                         *)
(* Conventions.  Rust Option<T> is a sequence of length 0 or 1.  Rust      *)
(* vectors are sequences (1-based here, 0-based in the source).  Hourly    *)
(* cost and the unmet-demand penalty are f64 in the source; the model      *)
(* keeps them as integers in one common unit (a hundredth of a dollar),    *)
(* so sums and comparisons are exact.                                      *)
(***************************************************************************)
EXTENDS Integers, Sequences, FiniteSets, TLC

VARIABLES
    call,           \* arguments of a direct call of optimiser::solve
    ret,            \* what that call returned (NotCalled before the call)
    pods,           \* the Pending pods of the cluster, in list order
    provider,       \* FakeProviderState
    node_requests,  \* the NodeRequest resources of the cluster
    runs,           \* the reconciles started so far, each with its position
    memo            \* the placements the solver has produced, by input

vars == <<call, ret, pods, provider, node_requests, runs, memo>>

---------------------------------------------------------------------------
(* Bounds of the model *)

\* replicas per offering built by solve; the source passes the literal 10
\* (optimiser.rs:281), the model checks the same formulation with fewer
MaxInstances == 2
\* longest demand list handed to solve, PackedDemands and ScarceDemands
\* apart
MaxDemands == 2
\* most reconciles started in one behaviour
MaxReconciles == 2
\* failed reconciles in a row that are counted for a pod
MaxFailures == 1
\* NodeRequests the API server accepts where reconciles are requeued
\* without end
MaxNodeRequests == 1

\* Largest cpu, memory, gpu and storage amount of the Resources handed to
\* satisfies.
MaxAmount == 2

\* Largest number of containers of a pod handed to Resources::from_pod.
MaxContainers == 2

\* Most create and delete calls made on one FakeProvider.
MaxCalls == 3

---------------------------------------------------------------------------
(* Generic helpers *)

None == <<>>
Some(v) == <<v>>

RECURSIVE SumTo(_, _)
SumTo(s, n) == IF n = 0 THEN 0 ELSE s[n] + SumTo(s, n - 1)

SumSeq(s) == SumTo(s, Len(s))

\* the least element of a non-empty set of integers
MinOf(S) == CHOOSE v \in S : \A w \in S : v <= w

RECURSIVE SelectIdx(_, _, _)
\* the indices i in from..Len(flags) with flags[i], ascending
SelectIdx(flags, from, n) ==
    IF from > n THEN <<>>
    ELSE IF flags[from] THEN <<from>> \o SelectIdx(flags, from + 1, n)
    ELSE SelectIdx(flags, from + 1, n)

SeqsUpTo(S, n) == UNION {[1..k -> S] : k \in 0..n}

Range(s) == {s[i] : i \in DOMAIN s}

---------------------------------------------------------------------------
(* offering.rs: domain model *)

Resources(cpu, memory_mib, ephemeral_storage_gib, gpu, gpu_model) ==
    [cpu |-> cpu, memory_mib |-> memory_mib,
     ephemeral_storage_gib |-> ephemeral_storage_gib,
     gpu |-> gpu, gpu_model |-> gpu_model]

Offering(instance_type, resources, cost_per_hour) ==
    [instance_type |-> instance_type, resources |-> resources,
     cost_per_hour |-> cost_per_hour]

PodId(namespace, name) == [namespace |-> namespace, name |-> name]

PodResources(id, resources) == [id |-> id, resources |-> resources]

---------------------------------------------------------------------------
(* offering.rs: quantity parsing *)

\* u32 and u64 values where they are parsed and summed: a number is the
\* sequence of its digits in base 1024, least significant first, without
\* leading zero digits; <<>> is 0.
RECURSIVE Norm(_)
Norm(x) ==
    IF x = <<>> THEN <<>>
    ELSE IF x[Len(x)] = 0 THEN Norm(SubSeq(x, 1, Len(x) - 1))
    ELSE x

RECURSIVE MulAdd(_, _, _)
\* x * m + a, for 1 <= m <= 1024 and a >= 0
MulAdd(x, m, a) ==
    IF x = <<>>
    THEN IF a = 0 THEN <<>> ELSE <<a % 1024>> \o MulAdd(<<>>, m, a \div 1024)
    ELSE LET t == x[1] * m + a
         IN <<t % 1024>> \o MulAdd(Tail(x), m, t \div 1024)

RECURSIVE AddCarry(_, _, _)
AddCarry(x, y, carry) ==
    IF x = <<>> /\ y = <<>>
    THEN IF carry = 0 THEN <<>> ELSE <<carry>>
    ELSE LET t == (IF x = <<>> THEN 0 ELSE x[1])
                  + (IF y = <<>> THEN 0 ELSE y[1]) + carry
         IN <<t % 1024>> \o AddCarry(IF x = <<>> THEN <<>> ELSE Tail(x),
                                     IF y = <<>> THEN <<>> ELSE Tail(y),
                                     t \div 1024)

Add(x, y) == AddCarry(x, y, 0)

RECURSIVE DivRem(_, _)
\* quotient and remainder of x by d, for 1 <= d <= 1024 * 1024: long
\* division from the most significant digit down
DivRem(x, d) ==
    IF x = <<>> THEN [quotient |-> <<>>, remainder |-> 0]
    ELSE LET high == DivRem(Tail(x), d)
             t == high.remainder * 1024 + x[1]
         IN [quotient |-> <<t \div d>> \o high.quotient,
             remainder |-> t % d]

\* the quotient, one more when the division leaves a remainder
RoundedUp(qr) ==
    IF qr.remainder = 0 THEN Norm(qr.quotient)
    ELSE MulAdd(Norm(qr.quotient), 1, 1)

RECURSIVE div_ceil(_, _)
\* uN::div_ceil: a divisor that is a multiple of 1024 is taken a digit at
\* a time
div_ceil(x, d) ==
    IF d > 1024 * 1024
    THEN div_ceil(div_ceil(x, 1024), d \div 1024)
    ELSE RoundedUp(DivRem(x, d))

\* x < 2^32: three digits, or four with the fourth below 4
FitsU32(x) == Len(x) <= 3 \/ (Len(x) = 4 /\ x[4] < 4)

\* x < 2^64: six digits, or seven with the seventh below 16
FitsU64(x) == Len(x) <= 6 \/ (Len(x) = 7 /\ x[7] < 16)

\* x modulo 2^32: what a wrapping u32 operation and "as u32" leave
WrapU32(x) ==
    Norm([i \in 1..(IF Len(x) < 4 THEN Len(x) ELSE 4) |->
             IF i = 4 THEN x[i] % 4 ELSE x[i]])

\* the number as an Int, for numbers below 2^31
Value(x) == SumSeq([i \in DOMAIN x |-> x[i] * 1024 ^ (i - 1)])

\* A Quantity is the list of the characters of its string.
Digits == <<"0", "1", "2", "3", "4", "5", "6", "7", "8", "9">>

DigitValue(c) == CHOOSE v \in 0..9 : Digits[v + 1] = c

strip_suffix(s, suffix) ==
    IF /\ Len(s) >= Len(suffix)
       /\ SubSeq(s, Len(s) - Len(suffix) + 1, Len(s)) = suffix
    THEN Some(SubSeq(s, 1, Len(s) - Len(suffix)))
    ELSE None

RECURSIVE Decimal(_, _)
\* the digits of s read after acc
Decimal(s, acc) ==
    IF s = <<>> THEN acc
    ELSE Decimal(Tail(s), MulAdd(acc, 10, DigitValue(s[1])))

\* the number if it is within the type, none otherwise
Within(x, fits(_)) == IF fits(x) THEN Some(x) ELSE None

\* str::parse::<u32>() and str::parse::<u64>(): an optional "+", then one
\* or more decimal digits, the number within the type (fits); none is a
\* ParseIntError
parse(s, fits(_)) ==
    LET digits == IF s # <<>> /\ s[1] = "+" THEN Tail(s) ELSE s
    IN IF digits = <<>> THEN None
       ELSE IF \E i \in DOMAIN digits : digits[i] \notin Range(Digits)
       THEN None
       ELSE Within(Decimal(digits, <<>>), fits)

\* What a call can come to: Ok(value), Err(QuantityParseError) with the
\* raw string, or a panic of the thread.
Ok(value) == [kind |-> "Ok", value |-> value]
QuantityParseError(raw) == [kind |-> "Err", raw |-> raw]
Panicked == [kind |-> "Panic"]

\* "result?" and the rest of the function: an Err (or a panic) ends the
\* function with it
Then(result, rest(_)) ==
    IF result.kind # "Ok" THEN result ELSE rest(result.value)

\* ".map_err(|e| QuantityParseError { raw, source: e })"
map_err(n, raw) == IF n = None THEN QuantityParseError(raw) ELSE Ok(n[1])

\* a u32 operation whose exact result is x: with overflow checks (the dev
\* profile) it panics on overflow, without (the release profile) it wraps
Checked(x, overflow_checks) ==
    IF FitsU32(x) THEN Ok(x)
    ELSE IF overflow_checks THEN Panicked
    ELSE Ok(WrapU32(x))

parse_cpu(q) ==
    IF strip_suffix(q, <<"m">>) # None
    THEN Then(map_err(parse(strip_suffix(q, <<"m">>)[1], FitsU32), q),
              LAMBDA m : Ok(div_ceil(m, 1000)))
    ELSE map_err(parse(q, FitsU32), q)

parse_memory_mib(q, overflow_checks) ==
    IF strip_suffix(q, <<"G", "i">>) # None
    THEN Then(map_err(parse(strip_suffix(q, <<"G", "i">>)[1], FitsU32), q),
              LAMBDA n : Checked(MulAdd(n, 1024, 0), overflow_checks))
    ELSE IF strip_suffix(q, <<"M", "i">>) # None
    THEN map_err(parse(strip_suffix(q, <<"M", "i">>)[1], FitsU32), q)
    ELSE IF strip_suffix(q, <<"K", "i">>) # None
    THEN Then(map_err(parse(strip_suffix(q, <<"K", "i">>)[1], FitsU32), q),
              LAMBDA n : Ok(div_ceil(n, 1024)))
    ELSE Then(map_err(parse(q, FitsU64), q),
              LAMBDA n : Ok(WrapU32(div_ceil(n, 1024 * 1024))))

parse_storage_gib(q) ==
    IF strip_suffix(q, <<"G", "i">>) # None
    THEN map_err(parse(strip_suffix(q, <<"G", "i">>)[1], FitsU32), q)
    ELSE IF strip_suffix(q, <<"M", "i">>) # None
    THEN Then(map_err(parse(strip_suffix(q, <<"M", "i">>)[1], FitsU32), q),
              LAMBDA n : Ok(div_ceil(n, 1024)))
    ELSE IF strip_suffix(q, <<"K", "i">>) # None
    THEN Then(map_err(parse(strip_suffix(q, <<"K", "i">>)[1], FitsU64), q),
              LAMBDA n : Ok(WrapU32(div_ceil(n, 1024 * 1024))))
    ELSE Then(map_err(parse(q, FitsU64), q),
              LAMBDA n : Ok(WrapU32(div_ceil(n, 1024 * 1024 * 1024))))

\* k8s Container and PodSpec: resources is an Option of
\* ResourceRequirements, whose requests is an Option of a map from
\* resource names to quantities
Container(resources) == [name |-> "test", resources |-> resources]
ResourceRequirements(requests) == [requests |-> requests]
PodSpec(containers) == [containers |-> containers]

\* "total += parsed?": the error of the parse returns from from_pod, the
\* sum is a u32 sum
AddParsed(totals, field, parsed, overflow_checks) ==
    Then(parsed, LAMBDA value :
        Then(Checked(Add(totals[field], value), overflow_checks),
             LAMBDA sum : Ok([totals EXCEPT ![field] = sum])))

\* "*ephemeral_storage_gib.get_or_insert(0) += gib"
AddStorage(totals, parsed, overflow_checks) ==
    Then(parsed, LAMBDA gib :
        Then(Checked(Add(IF totals.ephemeral_storage_gib = None THEN <<>>
                         ELSE totals.ephemeral_storage_gib[1], gib),
                     overflow_checks),
             LAMBDA sum :
                 Ok([totals EXCEPT !.ephemeral_storage_gib = Some(sum)])))

\* the four "if let Some(q) = requests.get(..)" of the loop of
\* Resources::from_pod, in the order of the source
AddRequests(totals, requests, overflow_checks) ==
    Then(IF "cpu" \in DOMAIN requests
         THEN AddParsed(totals, "cpu", parse_cpu(requests["cpu"]),
                        overflow_checks)
         ELSE Ok(totals),
         LAMBDA with_cpu :
    Then(IF "memory" \in DOMAIN requests
         THEN AddParsed(with_cpu, "memory_mib",
                        parse_memory_mib(requests["memory"], overflow_checks),
                        overflow_checks)
         ELSE Ok(with_cpu),
         LAMBDA with_memory :
    Then(IF "nvidia.com/gpu" \in DOMAIN requests
         THEN AddParsed(with_memory, "gpu",
                        map_err(parse(requests["nvidia.com/gpu"], FitsU32),
                                requests["nvidia.com/gpu"]),
                        overflow_checks)
         ELSE Ok(with_memory),
         LAMBDA with_gpu :
         IF "ephemeral-storage" \in DOMAIN requests
         THEN AddStorage(with_gpu,
                         parse_storage_gib(requests["ephemeral-storage"]),
                         overflow_checks)
         ELSE Ok(with_gpu))))

\* the body of the loop of Resources::from_pod for one container
AddContainer(totals, container, overflow_checks) ==
    IF container.resources = None THEN Ok(totals)
    ELSE IF container.resources[1].requests = None THEN Ok(totals)
    ELSE AddRequests(totals, container.resources[1].requests[1],
                     overflow_checks)

RECURSIVE AddContainers(_, _, _)
\* the loop of Resources::from_pod over the containers left
AddContainers(totals, containers, overflow_checks) ==
    IF containers = <<>> THEN Ok(totals)
    ELSE Then(AddContainer(totals, containers[1], overflow_checks),
              LAMBDA added :
                  AddContainers(added, Tail(containers), overflow_checks))

\* Resources::from_pod; the numbers of the Resources are in base 1024
Resources_from_pod(pod, overflow_checks) ==
    LET containers == IF pod.spec = None THEN <<>>
                      ELSE pod.spec[1].containers
    IN AddContainers(Resources(<<>>, <<>>, None, <<>>, None), containers,
                     overflow_checks)

---------------------------------------------------------------------------
(* optimiser.rs *)

SolveOptions(unmet_demand_penalty, time_limit_seconds) ==
    [unmet_demand_penalty |-> unmet_demand_penalty,
     time_limit_seconds |-> time_limit_seconds]

\* 1_000_000.0 dollars, in hundredths of a dollar
DefaultPenalty == 100000000
DefaultTimeLimit == 30

SolveOptionsDefault == SolveOptions(DefaultPenalty, DefaultTimeLimit)

\* build_candidate_offerings giving every offering one replica more
build_candidate_offerings_one_more(offering_types, max_instances) ==
    [k \in 1..(Len(offering_types) * (max_instances + 1)) |->
        <<((k - 1) \div (max_instances + 1)) + 1,
          (k - 1) % (max_instances + 1)>>]

\* (type_index, instance_index) pairs, type-major
build_candidate_offerings(offering_types, max_instances) ==
    [k \in 1..(Len(offering_types) * max_instances) |->
        <<((k - 1) \div max_instances) + 1, (k - 1) % max_instances>>]

PotentialNode(offering, assigned) ==
    [offering |-> offering, pods |-> assigned]

AllPlaced(nodes) == [kind |-> "AllPlaced", nodes |-> nodes, unmet |-> <<>>]
NoDemands == [kind |-> "NoDemands", nodes |-> <<>>, unmet |-> <<>>]
IncompletePlacement(nodes, unmet) ==
    [kind |-> "IncompletePlacement", nodes |-> nodes, unmet |-> unmet]

\* A value of the binary variables of create_decision_variables:
\* placements[d][c], offering_active[c] and unmet_demands[d], each 0 or 1.
\* a[d] names the candidate demand d is placed on (0 for none) and Y is
\* the set of active candidates.
create_decision_variables(num_demands, num_candidates, a, Y) ==
    [placements |->
        [d \in 1..num_demands |->
            [c \in 1..num_candidates |-> IF a[d] = c THEN 1 ELSE 0]],
     offering_active |->
        [c \in 1..num_candidates |-> IF c \in Y THEN 1 ELSE 0],
     unmet_demands |->
        [d \in 1..num_demands |-> IF a[d] = 0 THEN 1 ELSE 0]]

\* build_objective counting every active candidate as one unit of cost
build_objective_unit_cost(candidate_offerings, offerings, dv, unmet_demand_penalty) ==
    SumSeq([c \in 1..Len(candidate_offerings) |-> dv.offering_active[c]])
    + SumSeq([d \in 1..Len(dv.unmet_demands) |->
          dv.unmet_demands[d] * unmet_demand_penalty])

\* build_objective without the penalty term
build_objective_no_penalty(candidate_offerings, offerings, dv, unmet_demand_penalty) ==
    SumSeq([c \in 1..Len(candidate_offerings) |->
        dv.offering_active[c]
            * offerings[candidate_offerings[c][1]].cost_per_hour])

build_objective(candidate_offerings, offerings, dv, unmet_demand_penalty) ==
    LET offering_cost ==
            SumSeq([c \in 1..Len(candidate_offerings) |->
                dv.offering_active[c]
                    * offerings[candidate_offerings[c][1]].cost_per_hour])
        penalty ==
            SumSeq([d \in 1..Len(dv.unmet_demands) |->
                dv.unmet_demands[d] * unmet_demand_penalty])
    IN offering_cost + penalty

\* add_constraints without the unmet variable in the assignment
\* constraint: every pod is assigned to one node
add_constraints_must_place(demands, offerings, candidate_offerings, dv) ==
    /\ \A demand \in 1..Len(demands) :
          SumSeq(dv.placements[demand]) = 1
    /\ \A demand \in 1..Len(demands) :
          \A offering \in 1..Len(candidate_offerings) :
              dv.placements[demand][offering] <= dv.offering_active[offering]
    /\ \A offering_idx \in 1..Len(candidate_offerings) :
          /\ SumSeq([demand \in 1..Len(demands) |->
                 dv.placements[demand][offering_idx]
                     * demands[demand].resources.cpu])
               <= offerings[candidate_offerings[offering_idx][1]].resources.cpu
          /\ SumSeq([demand \in 1..Len(demands) |->
                 dv.placements[demand][offering_idx]
                     * demands[demand].resources.memory_mib])
               <= offerings[candidate_offerings[offering_idx][1]]
                      .resources.memory_mib

\* add_constraints without the memory capacity constraint
add_constraints_cpu_only(demands, offerings, candidate_offerings, dv) ==
    /\ \A demand \in 1..Len(demands) :
          SumSeq(dv.placements[demand]) + dv.unmet_demands[demand] = 1
    /\ \A demand \in 1..Len(demands) :
          \A offering \in 1..Len(candidate_offerings) :
              dv.placements[demand][offering] <= dv.offering_active[offering]
    /\ \A offering_idx \in 1..Len(candidate_offerings) :
          SumSeq([demand \in 1..Len(demands) |->
              dv.placements[demand][offering_idx]
                  * demands[demand].resources.cpu])
            <= offerings[candidate_offerings[offering_idx][1]].resources.cpu

add_constraints(demands, offerings, candidate_offerings, dv) ==
    \* Each pod can only be assigned to one node, or it's unscheduled.
    /\ \A demand \in 1..Len(demands) :
          SumSeq(dv.placements[demand]) + dv.unmet_demands[demand] = 1
    \* A pod can only be placed on an active (provisioned) offering.
    /\ \A demand \in 1..Len(demands) :
          \A offering \in 1..Len(candidate_offerings) :
              dv.placements[demand][offering] <= dv.offering_active[offering]
    \* Capacity Requirements
    /\ \A offering_idx \in 1..Len(candidate_offerings) :
          LET offering_type == candidate_offerings[offering_idx][1]
              cpu_used == SumSeq([demand \in 1..Len(demands) |->
                  dv.placements[demand][offering_idx]
                      * demands[demand].resources.cpu])
              mem_used == SumSeq([demand \in 1..Len(demands) |->
                  dv.placements[demand][offering_idx]
                      * demands[demand].resources.memory_mib])
          IN /\ cpu_used <= offerings[offering_type].resources.cpu
             /\ mem_used <= offerings[offering_type].resources.memory_mib

\* "value > 0.5" on a 0/1 value
On(v) == 2 * v > 1

\* extract_solution reading a candidate's pods at the column of its
\* offering type instead of its own column
extract_solution_type_column(solution, demands, offerings, candidate_offerings) ==
    LET nd == Len(demands)
        nc == Len(candidate_offerings)
        unmetIdx == SelectIdx([d \in 1..nd |-> On(solution.unmet_demands[d])],
                              1, nd)
        unmet == [k \in 1..Len(unmetIdx) |-> demands[unmetIdx[k]]]
        activeIdx == SelectIdx([c \in 1..nc |-> On(solution.offering_active[c])],
                               1, nc)
        podsOf(c) ==
            LET idx == SelectIdx(
                    [d \in 1..nd |->
                        On(solution.placements[d][candidate_offerings[c][1]])],
                    1, nd)
            IN [k \in 1..Len(idx) |-> demands[idx[k]].id]
        nodes == [k \in 1..Len(activeIdx) |->
            PotentialNode(offerings[candidate_offerings[activeIdx[k]][1]],
                          podsOf(activeIdx[k]))]
    IN IF unmet = <<>> THEN AllPlaced(nodes)
       ELSE IncompletePlacement(nodes, unmet)

extract_solution(solution, demands, offerings, candidate_offerings) ==
    LET nd == Len(demands)
        nc == Len(candidate_offerings)
        unmetIdx == SelectIdx([d \in 1..nd |-> On(solution.unmet_demands[d])],
                              1, nd)
        unmet == [k \in 1..Len(unmetIdx) |-> demands[unmetIdx[k]]]
        activeIdx == SelectIdx([c \in 1..nc |-> On(solution.offering_active[c])],
                               1, nc)
        podsOf(c) ==
            LET idx == SelectIdx([d \in 1..nd |-> On(solution.placements[d][c])],
                                 1, nd)
            IN [k \in 1..Len(idx) |-> demands[idx[k]].id]
        nodes == [k \in 1..Len(activeIdx) |->
            PotentialNode(offerings[candidate_offerings[activeIdx[k]][1]],
                          podsOf(activeIdx[k]))]
    IN IF unmet = <<>> THEN AllPlaced(nodes)
       ELSE IncompletePlacement(nodes, unmet)

\* The candidates some demand of assignment a is placed on.  a[d] names the
\* candidate of demand d, 0 for none.
Used(a) == {a[d] : d \in DOMAIN a} \ {0}

\* The assignments of the first k demands that satisfy the constraints
\* stated for those k demands alone, found demand by demand.  Resource
\* requests are unsigned, so an assignment of all demands that satisfies
\* the constraints also satisfies them on every prefix of the demands:
\* nothing feasible is lost.
RECURSIVE Placements(_, _, _, _)
Placements(demands, offerings, candidate_offerings, k) ==
    IF k = 0 THEN {<<>>}
    ELSE LET nc == Len(candidate_offerings)
             first == SubSeq(demands, 1, k)
         IN {b \in {Append(a, c) :
                      a \in Placements(demands, offerings,
                                       candidate_offerings, k - 1),
                      c \in 0..nc} :
                add_constraints(first, offerings, candidate_offerings,
                    create_decision_variables(k, nc, b, Used(b)))}

\* The points of the 0/1 cube the search has to look at, each given by
\* the pair <<a, Y>> that create_decision_variables turns into values.
\* A point with two placements of one demand, with a demand both placed
\* and unmet or with a placement on an inactive candidate breaks a
\* constraint; a point with an active candidate of positive cost that
\* holds no demand costs more than the same point with that candidate
\* switched off.  What is left: every demand on one candidate or unmet,
\* the used candidates active, and any set Z of unused candidates that
\* cost nothing active as well.
SearchSpace(demands, offerings, candidate_offerings) ==
    LET nc == Len(candidate_offerings)
        idle(a) == {c \in (1..nc) \ Used(a) :
            offerings[candidate_offerings[c][1]].cost_per_hour <= 0}
    IN UNION {{<<a, Used(a) \cup Z>> : Z \in SUBSET idle(a)} :
              a \in Placements(demands, offerings, candidate_offerings,
                               Len(demands))}

\* problem.solve() with the HiGHS backend: some point satisfying the
\* constraints at which the objective is least.
Minimise(demands, offerings, candidate_offerings, unmet_demand_penalty) ==
    LET point(p) == create_decision_variables(
                        Len(demands), Len(candidate_offerings), p[1], p[2])
        feasible ==
            {p \in SearchSpace(demands, offerings, candidate_offerings) :
                add_constraints(demands, offerings, candidate_offerings,
                                point(p))}
        valued == {<<build_objective(candidate_offerings, offerings,
                                     point(p), unmet_demand_penalty), p>> :
                   p \in feasible}
        least == MinOf({v[1] : v \in valued})
    IN {point(v[2]) : v \in {w \in valued : w[1] = least}}

\* What one call of solve can return: the PlacementSolution, the candidate
\* list it built (empty when it returned before building one) and whether
\* the ILP backend was run.
SolveReturn(solution, candidate_offerings, solved) ==
    [solution |-> solution, candidate_offerings |-> candidate_offerings,
     solved |-> solved]

\* solve testing for an empty catalogue before testing for no demands
solve_offerings_first(demands, offerings, options) ==
    IF offerings = <<>>
    THEN {SolveReturn(IncompletePlacement(<<>>, demands), <<>>, FALSE)}
    ELSE IF demands = <<>> THEN {SolveReturn(NoDemands, <<>>, FALSE)}
    ELSE LET candidate_offerings ==
                 build_candidate_offerings(offerings, MaxInstances)
         IN {SolveReturn(
                extract_solution(solution, demands, offerings,
                                 candidate_offerings),
                candidate_offerings, TRUE) :
             solution \in Minimise(demands, offerings, candidate_offerings,
                                   options.unmet_demand_penalty)}

\* solve without the early return for an empty catalogue
solve_unguarded(demands, offerings, options) ==
    IF demands = <<>> THEN {SolveReturn(NoDemands, <<>>, FALSE)}
    ELSE LET candidate_offerings ==
                 build_candidate_offerings(offerings, MaxInstances)
         IN {SolveReturn(
                extract_solution(solution, demands, offerings,
                                 candidate_offerings),
                candidate_offerings, TRUE) :
             solution \in Minimise(demands, offerings, candidate_offerings,
                                   options.unmet_demand_penalty)}

solve(demands, offerings, options) ==
    IF demands = <<>> THEN {SolveReturn(NoDemands, <<>>, FALSE)}
    ELSE IF offerings = <<>>
    THEN {SolveReturn(IncompletePlacement(<<>>, demands), <<>>, FALSE)}
    ELSE LET candidate_offerings ==
                 build_candidate_offerings(offerings, MaxInstances)
         IN {SolveReturn(
                extract_solution(solution, demands, offerings,
                                 candidate_offerings),
                candidate_offerings, TRUE) :
             solution \in Minimise(demands, offerings, candidate_offerings,
                                   options.unmet_demand_penalty)}

---------------------------------------------------------------------------
(* Inputs of the direct calls of solve *)

NoGpu(cpu, memory_mib) == Resources(cpu, memory_mib, None, 0, None)

\* pod shapes: (cpu, memory_mib); memory in units of 1024 MiB
PodShapes == <<NoGpu(1, 3), NoGpu(2, 4)>>

PodNames == <<"pod-a", "pod-b", "pod-c", "pod-d", "pod-e">>

DemandList(sh) ==
    [k \in 1..Len(sh) |->
        PodResources(PodId("default", PodNames[k]), PodShapes[sh[k]])]

\* three small pods, two of which fill one cx22
PackedDemands == DemandList(<<1, 1, 1>>)

\* two small pods and two large ones: more demands than one offering has
\* replicas when MaxInstances is 2
ScarceDemands == DemandList(<<1, 1, 2, 2>>)

\* demand lists: pod k of the list is named PodNames[k] and has one of the
\* shapes, smaller shapes first
DemandLists ==
    {DemandList(sh) :
        sh \in {s \in SeqsUpTo(1..Len(PodShapes), MaxDemands) :
                  \A i \in 1..(Len(s) - 1) : s[i] <= s[i + 1]}}
    \cup {PackedDemands, ScarceDemands}

OfferingPool ==
    {Offering("cx22", NoGpu(2, 6), 1),
     Offering("tiny", NoGpu(1, 3), 10),
     Offering("big", NoGpu(4, 6), 100),
     Offering("free", NoGpu(1, 3), 0)}

\* catalogues: none, one or two offerings of the pool, in either order;
\* every offering of a catalogue has a distinct instance type
OfferingLists ==
    {<<>>} \cup {<<o>> : o \in OfferingPool}
        \cup {s \in {<<o, p>> : o \in OfferingPool, p \in OfferingPool} :
                    s[1] # s[2]}

\* penalties: below the cost of some offerings, above the cost of each of
\* them but below the cost of all candidates, and the default
Penalties == {5, 11, DefaultPenalty}

NotCalled == [solution |-> [kind |-> "NotCalled", nodes |-> <<>>,
                            unmet |-> <<>>],
              candidate_offerings |-> <<>>, solved |-> FALSE]

---------------------------------------------------------------------------
(* controller.rs, node_request.rs, providers: data and pure functions *)

UnwrapOrDefault(opt, default) == IF opt = None THEN default ELSE opt[1]

PodCondition(type_, status, reason) ==
    [type_ |-> type_, status |-> status, reason |-> reason]

OwnerReference(kind) == [kind |-> kind]

\* A Pod as the controller reads it.  status is an Option of a record with
\* conditions, an Option of a list; owner_references is an Option of a
\* list; spec is an Option of a PodSpec.
Pod(name, status, owner_references, spec) ==
    [metadata |-> [namespace |-> Some("default"), name |-> Some(name),
                   owner_references |-> owner_references],
     status |-> status, spec |-> spec]

\* is_pod_unschedulable without the test of the reason
is_pod_unschedulable_any_reason(pod) ==
    IF pod.status = None THEN FALSE
    ELSE IF pod.status[1].conditions = None THEN FALSE
    ELSE LET conditions == pod.status[1].conditions[1]
         IN \E i \in DOMAIN conditions :
                /\ conditions[i].type_ = "PodScheduled"
                /\ conditions[i].status = "False"

\* is_pod_unschedulable taking type, status and reason from any entries
is_pod_unschedulable_across_entries(pod) ==
    IF pod.status = None THEN FALSE
    ELSE IF pod.status[1].conditions = None THEN FALSE
    ELSE LET conditions == pod.status[1].conditions[1]
         IN /\ \E i \in DOMAIN conditions :
                   conditions[i].type_ = "PodScheduled"
            /\ \E i \in DOMAIN conditions : conditions[i].status = "False"
            /\ \E i \in DOMAIN conditions :
                   conditions[i].reason = Some("Unschedulable")

is_pod_unschedulable(pod) ==
    IF pod.status = None THEN FALSE
    ELSE IF pod.status[1].conditions = None THEN FALSE
    ELSE LET conditions == pod.status[1].conditions[1]
         IN \E i \in DOMAIN conditions :
                /\ conditions[i].type_ = "PodScheduled"
                /\ conditions[i].status = "False"
                /\ conditions[i].reason = Some("Unschedulable")

is_daemonset_pod(pod) ==
    IF pod.metadata.owner_references = None THEN FALSE
    ELSE LET refs == pod.metadata.owner_references[1]
         IN \E i \in DOMAIN refs : refs[i].kind = "DaemonSet"

\* get_unschedulable_pods keeping the pods of DaemonSets
get_unschedulable_pods_with_daemonsets(listed) ==
    SelectSeq(listed, LAMBDA pod : is_pod_unschedulable(pod))

\* the filter of get_unschedulable_pods, applied to the listed pods
get_unschedulable_pods(listed) ==
    SelectSeq(listed,
              LAMBDA pod : is_pod_unschedulable(pod) /\ ~is_daemonset_pod(pod))

\* PodResources::from_pod.  The numbers of the Resources are handed on as
\* Int, as the solver calculates with them.
from_pod(pod, overflow_checks) ==
    Then(Resources_from_pod(pod, overflow_checks), LAMBDA parsed :
        Ok(PodResources(
            PodId(UnwrapOrDefault(pod.metadata.namespace, ""),
                  UnwrapOrDefault(pod.metadata.name, "")),
            Resources(Value(parsed.cpu),
                      Value(parsed.memory_mib),
                      IF parsed.ephemeral_storage_gib = None THEN None
                      ELSE Some(Value(parsed.ephemeral_storage_gib[1])),
                      Value(parsed.gpu),
                      parsed.gpu_model))))

ClusterState(demands, offerings) ==
    [demands |-> demands, offerings |-> offerings]

RECURSIVE Collect_skipping(_, _, _)
\* Collect leaving out the pods that do not parse
Collect_skipping(unschedulable_pods, demands, overflow_checks) ==
    IF unschedulable_pods = <<>> THEN Ok(demands)
    ELSE LET first == from_pod(unschedulable_pods[1], overflow_checks)
         IN Collect_skipping(Tail(unschedulable_pods),
                IF first.kind # "Ok" THEN demands
                ELSE Append(demands, first.value), overflow_checks)

RECURSIVE Collect(_, _, _)
\* .map(PodResources::from_pod).collect::<Result<Vec<_>, _>>(): the
\* demands of the pods in order, or what the first pod that does not
\* parse comes to
Collect(unschedulable_pods, demands, overflow_checks) ==
    IF unschedulable_pods = <<>> THEN Ok(demands)
    ELSE Then(from_pod(unschedulable_pods[1], overflow_checks),
              LAMBDA first :
                  Collect(Tail(unschedulable_pods), Append(demands, first),
                          overflow_checks))

\* gather_cluster_state after the list and the offerings call
gather_cluster_state(unschedulable_pods, offerings, overflow_checks) ==
    Then(Collect(unschedulable_pods, <<>>, overflow_checks),
         LAMBDA demands : Ok(ClusterState(demands, offerings)))

\* satisfies without the comparison of the GPU models
satisfies_any_model(offering, need) ==
    /\ offering.resources.cpu >= need.cpu
    /\ offering.resources.memory_mib >= need.memory_mib
    /\ offering.resources.gpu >= need.gpu
    /\ IF need.ephemeral_storage_gib # None
       THEN IF offering.resources.ephemeral_storage_gib # None
            THEN offering.resources.ephemeral_storage_gib[1]
                     >= need.ephemeral_storage_gib[1]
            ELSE FALSE
       ELSE TRUE

satisfies(offering, need) ==
    /\ offering.resources.cpu >= need.cpu
    /\ offering.resources.memory_mib >= need.memory_mib
    /\ offering.resources.gpu >= need.gpu
    /\ IF need.gpu_model # None
       THEN IF offering.resources.gpu_model # None
            THEN need.gpu_model[1] = offering.resources.gpu_model[1]
            ELSE FALSE
       ELSE TRUE
    /\ IF need.ephemeral_storage_gib # None
       THEN IF offering.resources.ephemeral_storage_gib # None
            THEN offering.resources.ephemeral_storage_gib[1]
                     >= need.ephemeral_storage_gib[1]
            ELSE FALSE
       ELSE TRUE

suitable_offerings(state) ==
    SelectSeq(state.offerings,
              LAMBDA offering :
                  \E d \in DOMAIN state.demands :
                      satisfies(offering, state.demands[d].resources))

NodeRequestDemand(pool, target_offering) ==
    [pool |-> pool, target_offering |-> target_offering]

\* reconcile_pods without the provisioning actions of an
\* IncompletePlacement
reconcile_pods_all_placed_only(state) ==
    {[placement |-> r.solution,
      demands |->
        IF r.solution.kind = "AllPlaced"
        THEN [k \in DOMAIN r.solution.nodes |->
                 NodeRequestDemand("PoolsAreFake", r.solution.nodes[k].offering)]
        ELSE <<>>] :
     r \in solve(state.demands, suitable_offerings(state), SolveOptionsDefault)}

\* reconcile_pods with one provisioning action for each placed pod
reconcile_pods_per_pod(state) ==
    {[placement |-> r.solution,
      demands |->
        [k \in 1..(Len(state.demands) - Len(r.solution.unmet)) |->
            NodeRequestDemand("PoolsAreFake", r.solution.nodes[1].offering)]] :
     r \in solve(state.demands, suitable_offerings(state), SolveOptionsDefault)}

\* What reconcile_pods can return for a state: the placement solve gave
\* and the provisioning actions made of it.
reconcile_pods(state) ==
    {[placement |-> r.solution,
      demands |->
        IF r.solution.kind = "NoDemands" THEN <<>>
        ELSE [k \in DOMAIN r.solution.nodes |->
                 NodeRequestDemand("PoolsAreFake", r.solution.nodes[k].offering)]] :
     r \in solve(state.demands, suitable_offerings(state), SolveOptionsDefault)}

NodeRequestSpec(target_offering) == [target_offering |-> target_offering]

\* NodeRequest::new with a status that says the provider was asked
NodeRequest_requested(name, spec) ==
    [metadata |-> [name |-> name], spec |-> spec,
     status |-> Some([phase |-> "Provisioning", node_id |-> None,
                      events |-> <<[name |-> "nodeRequested"]>>])]

\* NodeRequest::new: no status yet.  The name "{pool}-{uuid}" is the pair
\* of its two parts; a uuid is the pair of the reconcile that drew it and
\* the position of the create in that reconcile, which no other create
\* shares.
NodeRequest(name, spec) ==
    [metadata |-> [name |-> name], spec |-> spec, status |-> None]

\* NodeRequestStatus::default(): NodeRequestPhase::default() is Pending
NodeRequestStatusDefault ==
    [phase |-> "Pending", node_id |-> None, events |-> <<>>]

\* the status read from a NodeRequest: Option::unwrap_or_default, as the
\* serde defaults of NodeRequestStatus give it for an absent status
StatusOf(nr) ==
    IF nr.status = None THEN NodeRequestStatusDefault ELSE nr.status[1]

\* create_node_request that leaves the cluster alone when a NodeRequest
\* for the same offering is already there
create_node_request_once(existing, pool, spec, uuid) ==
    IF \E nr \in existing : nr.spec = spec THEN existing
    ELSE existing \cup {NodeRequest(<<pool, uuid>>, spec)}

\* create_node_request when the API call succeeds: the NodeRequests of the
\* cluster afterwards
create_node_request(existing, pool, spec, uuid) ==
    existing \cup {NodeRequest(<<pool, uuid>>, spec)}

\* OfferingsBehavior; Static keeps its one catalogue in seq
Static(v) == [kind |-> "Static", seq |-> <<v>>]
Sequence(seq) == [kind |-> "Sequence", seq |-> seq]

\* the FakeProviderState of the provider handed to the controller: the
\* offerings behaviour it was built with and the two call logs, empty
\* after construction
FakeProviderState(offerings_behavior) ==
    [offerings_behavior |-> offerings_behavior,
     create_calls |-> <<>>, delete_calls |-> <<>>]

\* offerings that pops the last element of the sequence as well
offerings_draining(state) ==
    LET behavior == state.offerings_behavior
    IN IF behavior.kind = "Static"
       THEN [ret |-> behavior.seq[1], state |-> state]
       ELSE IF behavior.seq # <<>>
       THEN [ret |-> Head(behavior.seq),
             state |-> [state EXCEPT
                          !.offerings_behavior.seq = Tail(behavior.seq)]]
       ELSE [ret |-> <<>>, state |-> state]

\* FakeProvider::offerings: the catalogue returned and the state left
offerings(state) ==
    LET behavior == state.offerings_behavior
    IN IF behavior.kind = "Static"
       THEN [ret |-> behavior.seq[1], state |-> state]
       ELSE IF Len(behavior.seq) > 1
       THEN [ret |-> Head(behavior.seq),
             state |-> [state EXCEPT
                          !.offerings_behavior.seq = Tail(behavior.seq)]]
       ELSE [ret |-> IF behavior.seq = <<>> THEN <<>> ELSE behavior.seq[1],
             state |-> state]

\* kube Action
await_change == [requeue_after |-> None]
requeue(seconds) == [requeue_after |-> Some(seconds)]

\* error_policy asking for the delay of a successful reconcile
error_policy_same_delay(pod, error) == requeue(30)

\* error_policy that does not ask for a requeue
error_policy_give_up(pod, error) == await_change

error_policy(pod, error) == requeue(5)

---------------------------------------------------------------------------
(* controller.rs: reconcile_pod and controller_loop_single, step by step *)

\* A reconcile from its start.  pc is the await it stands at: "list"
\* (pods.list), "gather" (provider.offerings, then parsing and
\* reconcile_pods), "create" (the create_node_request of actions[next]),
\* or "done".  calls counts the API, provider and solve calls it made,
\* failed_before the failed reconciles of the pod just before this one.
NewRun(kind, pod) ==
    [kind |-> kind, pod |-> pod, pc |-> "list", failed_before |-> 0,
     unschedulable_pods |-> <<>>, state |-> None, placement |-> None,
     actions |-> <<>>, next |-> 1, created |-> <<>>,
     result |-> "Running", error |-> "", action |-> None,
     calls |-> [list |-> 0, offerings |-> 0, solve |-> 0, create |-> 0]]

\* return Ok: reconcile_pod asks for a requeue after 30 s,
\* controller_loop_single returns ()
ReturnOk(run) ==
    [run EXCEPT !.pc = "done", !.result = "Ok",
                !.action = IF run.kind = "reconcile_pod"
                           THEN Some(requeue(30)) ELSE None]

\* return Err by "?": the controller runtime hands the error of a
\* reconcile_pod to error_policy
ReturnErr(run, error) ==
    [run EXCEPT !.pc = "done", !.result = "Err", !.error = error,
                !.action = IF run.kind = "reconcile_pod"
                           THEN Some(error_policy(run.pod, error)) ELSE None]

\* a panic unwinds out of the reconcile: it returns nothing
Panic(run) == [run EXCEPT !.pc = "done", !.result = "Panic"]

\* the solver returns the same placement for the same input
Remembered(state) == {m \in memo : m.state = state}

Outcomes(state) ==
    IF Remembered(state) # {} THEN {m.outcome : m \in Remembered(state)}
    ELSE reconcile_pods(state)

\* solve gets past its early returns and runs the ILP backend
EntersSolver(state) ==
    state.demands # <<>> /\ suitable_offerings(state) # <<>>

\* The runtime calls reconcile_pod for pod i; it does not run two
\* reconciles of one object at a time.  A pod that is not unschedulable
\* is answered at once.
ReconcilePod(i) ==
    /\ Len(runs) < MaxReconciles
    /\ \A q \in DOMAIN runs :
          runs[q].result = "Running" => runs[q].pod # Some(pods[i])
    /\ runs' = Append(runs,
          IF ~is_pod_unschedulable(pods[i])
          THEN [NewRun("reconcile_pod", Some(pods[i])) EXCEPT
                   !.pc = "done", !.result = "Ok",
                   !.action = Some(await_change)]
          ELSE NewRun("reconcile_pod", Some(pods[i])))
    /\ UNCHANGED <<call, ret, pods, provider, node_requests, memo>>

ControllerLoopSingle ==
    /\ Len(runs) < MaxReconciles
    /\ runs' = Append(runs, NewRun("controller_loop_single", None))
    /\ UNCHANGED <<call, ret, pods, provider, node_requests, memo>>

\* pods.list(..).await succeeds
ListPods(r) ==
    /\ runs[r].pc = "list"
    /\ runs' = [runs EXCEPT
          ![r].unschedulable_pods = get_unschedulable_pods(pods),
          ![r].calls.list = @ + 1,
          ![r].pc = "gather"]
    /\ UNCHANGED <<call, ret, pods, provider, node_requests, memo>>

\* pods.list(..).await fails
ListPodsFails(r) ==
    /\ runs[r].pc = "list"
    /\ runs' = [runs EXCEPT
          ![r] = ReturnErr([@ EXCEPT !.calls.list = @ + 1], "Other")]
    /\ UNCHANGED <<call, ret, pods, provider, node_requests, memo>>

\* what gather_cluster_state can come to in the builds of the program,
\* with and without overflow checks
Gathered(unschedulable_pods, got) ==
    {gather_cluster_state(unschedulable_pods, got, overflow_checks) :
        overflow_checks \in BOOLEAN}

\* provider.offerings().await, the parsing of the pods, reconcile_pods
Gather(r) ==
    /\ runs[r].pc = "gather"
    /\ LET got == offerings(provider)
           asked == [runs[r] EXCEPT !.calls.offerings = @ + 1]
       IN /\ provider' = got.state
          /\ \E gathered \in Gathered(runs[r].unschedulable_pods, got.ret) :
             IF gathered.kind = "Panic"
             THEN /\ runs' = [runs EXCEPT ![r] = Panic(asked)]
                  /\ UNCHANGED memo
             ELSE IF gathered.kind = "Err"
             THEN /\ runs' = [runs EXCEPT ![r] = ReturnErr(asked, "Other")]
                  /\ UNCHANGED memo
             ELSE \E outcome \in Outcomes(gathered.value) :
                    LET planned == [asked EXCEPT
                            !.state = Some(gathered.value),
                            !.placement = Some(outcome.placement),
                            !.actions = outcome.demands,
                            !.calls.solve = @ + 1,
                            !.pc = "create"]
                    IN /\ runs' = [runs EXCEPT ![r] =
                              IF outcome.demands = <<>> THEN ReturnOk(planned)
                              ELSE planned]
                       /\ memo' = memo \cup {[state |-> gathered.value,
                                             outcome |-> outcome]}
    /\ UNCHANGED <<call, ret, pods, node_requests>>

\* as Gather, with problem.solve() failing (SolveError::Resolution)
SolveFails(r) ==
    /\ runs[r].pc = "gather"
    /\ LET got == offerings(provider)
       IN \E gathered \in Gathered(runs[r].unschedulable_pods, got.ret) :
          /\ gathered.kind = "Ok"
          /\ EntersSolver(gathered.value)
          /\ provider' = got.state
          /\ runs' = [runs EXCEPT ![r] =
                ReturnErr([@ EXCEPT !.calls.offerings = @ + 1,
                                    !.calls.solve = @ + 1,
                                    !.state = Some(gathered.value)],
                          "Solver")]
    /\ UNCHANGED <<call, ret, pods, node_requests, memo>>

\* create_node_request(..).await succeeds for the next action, with the
\* uuid drawn
CreateNodeRequestAs(r, uuid) ==
    /\ runs[r].pc = "create"
    /\ LET node_request_action == runs[r].actions[runs[r].next]
           made == [runs[r] EXCEPT
               !.created = Append(@, <<node_request_action.pool, uuid>>),
               !.calls.create = @ + 1,
               !.next = @ + 1]
       IN /\ node_requests' = create_node_request(
                 node_requests, node_request_action.pool,
                 NodeRequestSpec(
                     node_request_action.target_offering.instance_type),
                 uuid)
          /\ runs' = [runs EXCEPT ![r] =
                IF made.next > Len(made.actions) THEN ReturnOk(made)
                ELSE made]
    /\ UNCHANGED <<call, ret, pods, provider, memo>>

CreateNodeRequest(r) == CreateNodeRequestAs(r, <<r, runs[r].next>>)

\* as CreateNodeRequest where a pod is reconciled again and again: the
\* uuid also tells the creates of one position apart, and the API server
\* accepts MaxNodeRequests NodeRequests
CreateNodeRequestUnderQuota(r) ==
    /\ Cardinality(node_requests) < MaxNodeRequests
    /\ CreateNodeRequestAs(r, <<r, runs[r].next, Cardinality(node_requests)>>)

\* a failing create that also deletes the NodeRequests the reconcile
\* created before it
CreateNodeRequestFails_rolls_back(r) ==
    /\ runs[r].pc = "create"
    /\ runs' = [runs EXCEPT
          ![r] = ReturnErr([@ EXCEPT !.calls.create = @ + 1], "Kube")]
    /\ node_requests' =
          {nr \in node_requests :
              \A k \in DOMAIN runs[r].created :
                  nr.metadata.name # runs[r].created[k]}
    /\ UNCHANGED <<call, ret, pods, provider, memo>>

\* create_node_request(..).await fails: nothing is created, and the
\* NodeRequests created before stay
CreateNodeRequestFails(r) ==
    /\ runs[r].pc = "create"
    /\ runs' = [runs EXCEPT
          ![r] = ReturnErr([@ EXCEPT !.calls.create = @ + 1], "Kube")]
    /\ UNCHANGED <<call, ret, pods, provider, node_requests, memo>>

\* The controller runtime acts on the Action of a finished reconcile_pod:
\* with requeue_after set it calls reconcile_pod for the pod again, the
\* pod being Pending as before.  Each pod has one scheduled requeue at
\* most, the one of its latest reconcile.
Requeue(r) ==
    /\ runs[r].kind = "reconcile_pod"
    /\ runs[r].pc = "done"
    /\ runs[r].action # None
    /\ runs[r].action[1].requeue_after # None
    /\ LET again == [NewRun("reconcile_pod", runs[r].pod) EXCEPT
               !.failed_before =
                   IF runs[r].result # "Err" THEN 0
                   ELSE IF runs[r].failed_before < MaxFailures
                        THEN runs[r].failed_before + 1
                        ELSE MaxFailures]
       IN runs' = [runs EXCEPT ![r] =
              IF ~is_pod_unschedulable(runs[r].pod[1])
              THEN [again EXCEPT !.pc = "done", !.result = "Ok",
                                 !.action = Some(await_change)]
              ELSE again]
    /\ UNCHANGED <<call, ret, pods, provider, node_requests, memo>>

\* the watcher's event for pod i: its first reconcile
Watch(i) ==
    /\ \A q \in DOMAIN runs : runs[q].pod # Some(pods[i])
    /\ ReconcilePod(i)

---------------------------------------------------------------------------
(* Clusters and providers of the controller *)

Unschedulable ==
    Some([conditions |->
        Some(<<PodCondition("PodScheduled", "False", Some("Unschedulable"))>>)])

UnschedulableAmongOthers ==
    Some([conditions |->
        Some(<<PodCondition("Initialized", "True", None),
               PodCondition("PodScheduled", "False", Some("Unschedulable"))>>)])

Scheduled ==
    Some([conditions |-> Some(<<PodCondition("PodScheduled", "True", None)>>)])

NotScheduledForAnotherReason ==
    Some([conditions |->
        Some(<<PodCondition("PodScheduled", "False", Some("SchedulerError")),
               PodCondition("Ready", "False", Some("Unschedulable"))>>)])

OwnedBy(kind) == Some(<<OwnerReference(kind)>>)

\* the characters of a quantity that is a number and a suffix
Quantity(number, suffix) ==
    [i \in DOMAIN number |-> Digits[number[i] + 1]] \o suffix

\* a container that requests cpu and memory (tests::make_container)
make_container(cpu, memory) ==
    Container(Some(ResourceRequirements(Some(
        ("cpu" :> cpu) @@ ("memory" :> memory)))))

\* one container asking for 1 cpu and 3 MiB
OneContainer ==
    Some(PodSpec(<<make_container(Quantity(<<1>>, <<>>),
                                  Quantity(<<3>>, <<"M", "i">>))>>))

\* two containers asking for 2 cpu and 4 MiB together, and one without
\* requests
TwoContainers ==
    Some(PodSpec(<<make_container(Quantity(<<1, 5, 0, 0>>, <<"m">>),
                                  Quantity(<<2, 0, 4, 8>>, <<"K", "i">>)),
                   Container(None),
                   make_container(Quantity(<<>>, <<>>) \o <<"+", "0">>,
                                  Quantity(<<2, 0, 9, 7, 1, 5, 2>>, <<>>))>>))

\* a container that parses and one whose memory request does not
Unparseable ==
    Some(PodSpec(<<make_container(Quantity(<<1>>, <<>>),
                                  Quantity(<<3>>, <<"M", "i">>)),
                   make_container(Quantity(<<1>>, <<>>),
                                  Quantity(<<3>>, <<"M">>))>>))

\* a container with one request
Requesting(name, q) ==
    Some(PodSpec(<<Container(Some(ResourceRequirements(Some(name :> q))))>>))

\* kinds of pod: status, owner references and spec
PodKinds ==
    <<[status |-> Unschedulable, owner_references |-> None,
       spec |-> OneContainer],
      [status |-> UnschedulableAmongOthers,
       owner_references |-> OwnedBy("ReplicaSet"),
       spec |-> TwoContainers],
      [status |-> Unschedulable, owner_references |-> OwnedBy("DaemonSet"),
       spec |-> OneContainer],
      [status |-> Scheduled, owner_references |-> OwnedBy("ReplicaSet"),
       spec |-> OneContainer],
      [status |-> NotScheduledForAnotherReason, owner_references |-> None,
       spec |-> OneContainer],
      [status |-> Unschedulable, owner_references |-> None,
       spec |-> Unparseable],
      [status |-> None, owner_references |-> OwnedBy("DaemonSet"),
       spec |-> TwoContainers],
      [status |-> Unschedulable, owner_references |-> None,
       spec |-> Requesting("cpu", <<"0", ".", "5">>)],
      [status |-> Unschedulable, owner_references |-> None,
       spec |-> Requesting("nvidia.com/gpu", <<"o", "n", "e">>)],
      [status |-> UnschedulableAmongOthers, owner_references |-> None,
       spec |-> Requesting("ephemeral-storage", <<"1", "0", "G">>)]>>

\* clusters of no, one or two pods: pod k is named PodNames[k] and is of
\* the k-th kind listed
ClusterOf(ks) ==
    [k \in DOMAIN ks |->
        Pod(PodNames[k], PodKinds[ks[k]].status,
            PodKinds[ks[k]].owner_references, PodKinds[ks[k]].spec)]

Clusters ==
    {ClusterOf(ks) :
     ks \in {<<>>, <<1>>, <<4>>, <<6>>, <<1, 2>>, <<1, 5>>, <<3, 7>>,
             <<2, 6>>, <<1, 8>>, <<9>>, <<10, 1>>}}

\* the clusters watched by run(): each has a pod that carries the
\* condition
RunClusters == {ClusterOf(ks) : ks \in {<<1>>, <<1, 2>>, <<1, 5>>, <<2, 6>>}}

Cx22 == Offering("cx22", NoGpu(2, 6), 1)
Tiny == Offering("tiny", NoGpu(1, 3), 10)
Free == Offering("free", NoGpu(1, 3), 0)

Providers ==
    {FakeProviderState(b) :
        b \in {Static(<<>>), Static(<<Cx22>>), Static(<<Tiny>>),
               Static(<<Free>>), Sequence(<<<<Tiny>>, <<Cx22>>>>)}}

RunProviders ==
    {FakeProviderState(b) : b \in {Static(<<Cx22>>), Static(<<Tiny>>)}}

---------------------------------------------------------------------------
(* Specifications *)

\* no controller: an empty cluster and FakeProvider::new()
NoController ==
    /\ pods = <<>>
    /\ provider = FakeProviderState(Static(<<>>))
    /\ node_requests = {}
    /\ runs = <<>>
    /\ memo = {}

InitSolve ==
    /\ call \in [demands : DemandLists, offerings : OfferingLists,
                 options : {SolveOptions(p, DefaultTimeLimit) : p \in Penalties}]
    /\ ret = NotCalled
    /\ NoController

Solve ==
    /\ ret = NotCalled
    /\ ret' \in solve(call.demands, call.offerings, call.options)
    /\ UNCHANGED <<call, pods, provider, node_requests, runs, memo>>

NextSolve == Solve

SpecSolve == InitSolve /\ [][NextSolve]_vars

Init ==
    /\ call = [demands |-> <<>>, offerings |-> <<>>,
               options |-> SolveOptionsDefault]
    /\ ret = NotCalled
    /\ pods \in Clusters
    /\ provider \in Providers
    /\ node_requests = {}
    /\ runs = <<>>
    /\ memo = {}

Next ==
    \/ \E i \in DOMAIN pods : ReconcilePod(i)
    \/ ControllerLoopSingle
    \/ \E r \in DOMAIN runs : ListPods(r)
    \/ \E r \in DOMAIN runs : ListPodsFails(r)
    \/ \E r \in DOMAIN runs : Gather(r)
    \/ \E r \in DOMAIN runs : SolveFails(r)
    \/ \E r \in DOMAIN runs : CreateNodeRequest(r)
    \/ \E r \in DOMAIN runs : CreateNodeRequestFails(r)

Spec == Init /\ [][Next]_vars

\* One await of reconcile r returns
Step(r) ==
    /\ r \in DOMAIN runs
    /\ \/ ListPods(r)
       \/ ListPodsFails(r)
       \/ Gather(r)
       \/ SolveFails(r)
       \/ CreateNodeRequestUnderQuota(r)
       \/ CreateNodeRequestFails(r)

Fire(r) == r \in DOMAIN runs /\ Requeue(r)

\* run(): every Pending pod is reconciled when the watcher reports it and
\* again whenever the requeue of its latest reconcile fires
NextRun ==
    \/ \E i \in DOMAIN pods : Watch(i)
    \/ \E r \in DOMAIN runs : ListPods(r)
    \/ \E r \in DOMAIN runs : ListPodsFails(r)
    \/ \E r \in DOMAIN runs : Gather(r)
    \/ \E r \in DOMAIN runs : SolveFails(r)
    \/ \E r \in DOMAIN runs : CreateNodeRequestUnderQuota(r)
    \/ \E r \in DOMAIN runs : CreateNodeRequestFails(r)
    \/ \E r \in DOMAIN runs : Requeue(r)

\* Step(r) is enabled exactly while the reconcile in slot r is running:
\* at "list" the list can succeed, at "gather" the parsing fails or solve
\* has an optimum, at "create" the create can fail.
Running(r) == r \in DOMAIN runs /\ runs[r].pc # "done"

\* The async runtime polls every pending future and every API, provider
\* and solver call returns; the runtime's scheduler fires every requeue
\* and delivers every watcher event.  The second conjunct is
\* WF_vars(Step(r)) with ENABLED <<Step(r)>>_vars written as Running(r).
FairRun ==
    /\ \A i \in DOMAIN PodNames :
          WF_vars(i \in DOMAIN pods /\ Watch(i))
    /\ \A r \in 1..MaxReconciles :
          []<>(~Running(r)) \/ []<><<Step(r)>>_vars
    /\ \A r \in 1..MaxReconciles : WF_vars(Fire(r))

InitRun ==
    /\ Init
    /\ pods \in RunClusters
    /\ provider \in RunProviders

SpecRun == InitRun /\ [][NextRun]_vars /\ FairRun

---------------------------------------------------------------------------
(* Vocabulary of the properties of solve *)

Called == ret # NotCalled

\* how many entries of sequence s equal x
CountIn(s, x) == Cardinality({k \in DOMAIN s : s[k] = x})

\* how many times the pods of the returned nodes list pod id
PlacedCount(nodes, id) ==
    SumSeq([k \in DOMAIN nodes |-> CountIn(nodes[k].pods, id)])

\* the demand with a given pod id
DemandOf(demands, id) == CHOOSE d \in Range(demands) : d.id = id

CpuOf(demands, node) ==
    SumSeq([j \in DOMAIN node.pods |->
        DemandOf(demands, node.pods[j]).resources.cpu])

MemoryOf(demands, node) ==
    SumSeq([j \in DOMAIN node.pods |->
        DemandOf(demands, node.pods[j]).resources.memory_mib])

\* hourly cost of the returned nodes plus the penalty for the unmet demands
ReturnedValue(solution, penalty) ==
    SumSeq([k \in DOMAIN solution.nodes |->
        solution.nodes[k].offering.cost_per_hour])
    + penalty * Len(solution.unmet)

\* Every way of putting each of the first k demands on one of
\* max_instances nodes per offering, or on none, within the cpu and memory
\* of each node: f[d] is <<t, i>> for replica i of catalogue[t], or
\* <<0, 0>> for unmet.  Built demand by demand; the node that receives
\* demand k is the only one whose load changes.
RECURSIVE AlternativesOf(_, _, _, _)
AlternativesOf(demands, catalogue, max_instances, k) ==
    IF k = 0 THEN {<<>>}
    ELSE LET slots == {<<0, 0>>} \cup
                      ((1..Len(catalogue)) \X (0..(max_instances - 1)))
             load(g, field) ==
                 SumSeq([d \in 1..k |->
                     IF g[d] = g[k] THEN demands[d].resources[field] ELSE 0])
         IN {g \in {Append(f, sl) :
                      f \in AlternativesOf(demands, catalogue,
                                           max_instances, k - 1),
                      sl \in slots} :
                \/ g[k] = <<0, 0>>
                \/ /\ load(g, "cpu") <= catalogue[g[k][1]].resources.cpu
                   /\ load(g, "memory_mib")
                          <= catalogue[g[k][1]].resources.memory_mib}

Alternatives(demands, catalogue, max_instances) ==
    AlternativesOf(demands, catalogue, max_instances, Len(demands))

AlternativeUnmet(f) == Cardinality({d \in DOMAIN f : f[d] = <<0, 0>>})

\* cost of the nodes alternative f puts a demand on, plus the penalty
AlternativeValue(f, catalogue, penalty) ==
    LET usedSlots == {f[d] : d \in DOMAIN f} \ {<<0, 0>>}
        perType == [t \in DOMAIN catalogue |->
            Cardinality({sl \in usedSlots : sl[1] = t})
                * catalogue[t].cost_per_hour]
    IN SumSeq(perType) + penalty * AlternativeUnmet(f)

Fits(offering, demand) ==
    /\ demand.resources.cpu <= offering.resources.cpu
    /\ demand.resources.memory_mib <= offering.resources.memory_mib

---------------------------------------------------------------------------
(* C1 *)

\* C1: for non-empty demands and offerings the result of solve partitions
\* the demands: every demand is in unmet or in the pods of exactly one
\* node, never both, never neither, and nothing else is listed; the
\* result is AllPlaced exactly when no demand is unmet, and an
\* IncompletePlacement has at least one unmet demand.
C1_Partition ==
    (Called /\ call.demands # <<>> /\ call.offerings # <<>>) =>
        LET sol == ret.solution
        IN /\ \A d \in DOMAIN call.demands :
                 CountIn(sol.unmet, call.demands[d])
                     + PlacedCount(sol.nodes, call.demands[d].id) = 1
           /\ \A k \in DOMAIN sol.nodes : \A j \in DOMAIN sol.nodes[k].pods :
                 \E d \in DOMAIN call.demands :
                     call.demands[d].id = sol.nodes[k].pods[j]
           /\ \A k \in DOMAIN sol.unmet : sol.unmet[k] \in Range(call.demands)
           /\ sol.kind \in {"AllPlaced", "IncompletePlacement"}
           /\ (sol.kind = "AllPlaced") <=> (sol.unmet = <<>>)
           /\ (sol.kind = "IncompletePlacement") => Len(sol.unmet) >= 1

\* a call that split the demands: some placed on a node, some unmet
C1_Witness ==
    /\ Called
    /\ ret.solution.kind = "IncompletePlacement"
    /\ \E k \in DOMAIN ret.solution.nodes : ret.solution.nodes[k].pods # <<>>
    /\ Len(ret.solution.unmet) + 1 < Len(call.demands)

---------------------------------------------------------------------------
(* C2 *)

\* C2: on every node solve returns, the cpu requests of the pods assigned
\* to it sum to at most the cpu of the node's offering, and their memory
\* requests to at most its memory.
C2_Capacity ==
    Called =>
        \A k \in DOMAIN ret.solution.nodes :
            LET node == ret.solution.nodes[k]
            IN /\ CpuOf(call.demands, node) <= node.offering.resources.cpu
               /\ MemoryOf(call.demands, node)
                      <= node.offering.resources.memory_mib

\* a returned node shared by two pods that has cpu to spare and no memory
C2_Witness ==
    /\ Called
    /\ \E k \in DOMAIN ret.solution.nodes :
          LET node == ret.solution.nodes[k]
          IN /\ Len(node.pods) >= 2
             /\ MemoryOf(call.demands, node) = node.offering.resources.memory_mib
             /\ CpuOf(call.demands, node) < node.offering.resources.cpu

---------------------------------------------------------------------------
(* C3 *)

\* the cheaper offering of a two-offering catalogue
Cheaper(catalogue) ==
    IF catalogue[1].cost_per_hour < catalogue[2].cost_per_hour
    THEN catalogue[1] ELSE catalogue[2]

\* one demand, and a cheaper and a dearer offering that both fit it
CheaperAndDearerFit ==
    /\ Len(call.demands) = 1
    /\ Len(call.offerings) = 2
    /\ call.offerings[1].cost_per_hour # call.offerings[2].cost_per_hour
    /\ Fits(call.offerings[1], call.demands[1])
    /\ Fits(call.offerings[2], call.demands[1])

\* no assignment within the constraints has a smaller value than the one
\* solve returned
NoneCheaper ==
    \A f \in Alternatives(call.demands, call.offerings, MaxInstances) :
        ReturnedValue(ret.solution, call.options.unmet_demand_penalty)
            <= AlternativeValue(f, call.offerings,
                                call.options.unmet_demand_penalty)

---------------------------------------------------------------------------
(* C4 *)

MaxCost(catalogue) ==
    CHOOSE v \in {catalogue[t].cost_per_hour : t \in DOMAIN catalogue} :
        \A t \in DOMAIN catalogue : catalogue[t].cost_per_hour <= v

\* hourly cost of all the candidate nodes of a catalogue
AllCandidatesCost(catalogue, max_instances) ==
    max_instances
        * SumSeq([t \in DOMAIN catalogue |-> catalogue[t].cost_per_hour])

\* the fewest unmet demands any assignment within the constraints leaves
MinUnmet(demands, catalogue, max_instances) ==
    MinOf({AlternativeUnmet(f) :
              f \in Alternatives(demands, catalogue, max_instances)})

---------------------------------------------------------------------------
(* C5 *)

\* C5: with no demands solve returns NoDemands, whatever the catalogue
\* and the options, before it builds a candidate list and without
\* running the solver.
C5_NoDemands ==
    (Called /\ call.demands = <<>>) =>
        /\ ret.solution = NoDemands
        /\ ret.candidate_offerings = <<>>
        /\ ~ret.solved

\* a call with no demands and no offerings either that returned NoDemands
C5_Witness ==
    /\ Called
    /\ call.demands = <<>>
    /\ call.offerings = <<>>
    /\ ret.solution.kind = "NoDemands"

---------------------------------------------------------------------------
(* C6 *)

\* C6: with demands and an empty catalogue solve returns
\* IncompletePlacement with no nodes and unmet equal to the demands in
\* their order, without building candidates or running the solver.
C6_NoOfferings ==
    (Called /\ call.demands # <<>> /\ call.offerings = <<>>) =>
        /\ ret.solution = IncompletePlacement(<<>>, call.demands)
        /\ ret.candidate_offerings = <<>>
        /\ ~ret.solved

\* a call with several demands of different shapes and no offerings
C6_Witness ==
    /\ Called
    /\ call.offerings = <<>>
    /\ Len(call.demands) >= 2
    /\ call.demands[1].resources # call.demands[Len(call.demands)].resources
    /\ ret.solution.unmet = call.demands

---------------------------------------------------------------------------
(* Vocabulary of the properties of the controller *)

ConditionsOf(pod) ==
    IF pod.status = None THEN {}
    ELSE IF pod.status[1].conditions = None THEN {}
    ELSE Range(pod.status[1].conditions[1])

\* the pod carries the condition PodScheduled=False, reason Unschedulable
CarriesUnschedulable(pod) ==
    PodCondition("PodScheduled", "False", Some("Unschedulable"))
        \in ConditionsOf(pod)

OwnedByDaemonSet(pod) ==
    IF pod.metadata.owner_references = None THEN FALSE
    ELSE OwnerReference("DaemonSet")
             \in Range(pod.metadata.owner_references[1])

\* the reconciles: controller_loop_single, and reconcile_pod on a pod that
\* carries the condition
Reconciles ==
    {r \in DOMAIN runs :
        \/ runs[r].kind = "controller_loop_single"
        \/ CarriesUnschedulable(runs[r].pod[1])}

CompletedOk == {r \in Reconciles : runs[r].result = "Ok"}

\* the NodeRequests of the cluster with a given name
Named(name) == {nr \in node_requests : nr.metadata.name = name}

\* the (run, position) pairs that created the NodeRequest of a given name
CreatedAt(name) ==
    {rk \in UNION {{<<r, k>> : k \in DOMAIN runs[r].created} :
                   r \in DOMAIN runs} :
        runs[rk[1]].created[rk[2]] = name}

---------------------------------------------------------------------------
(* C7 *)

\* C7: a reconcile (reconcile_pod on an unschedulable pod, or
\* controller_loop_single) that completed without error has created one
\* NodeRequest per node of the placement it got from solve, the k-th with
\* the instance type of the k-th node as target_offering, for an
\* IncompletePlacement as for AllPlaced; every NodeRequest of the cluster
\* was created by one create of one reconcile.
C7_OnePerNode ==
    /\ \A r \in CompletedOk :
          /\ runs[r].placement # None
          /\ LET nodes == runs[r].placement[1].nodes
             IN /\ Len(runs[r].created) = Len(nodes)
                /\ \A k \in DOMAIN nodes :
                      /\ Cardinality(Named(runs[r].created[k])) = 1
                      /\ \A nr \in Named(runs[r].created[k]) :
                            nr.spec.target_offering
                                = nodes[k].offering.instance_type
    /\ \A nr \in node_requests :
          Cardinality(CreatedAt(nr.metadata.name)) = 1

\* a reconcile that completed with an IncompletePlacement of one node and
\* one unmet demand, and the NodeRequest for that node
C7_Witness ==
    \E r \in CompletedOk :
        /\ runs[r].placement # None
        /\ runs[r].placement[1].kind = "IncompletePlacement"
        /\ Len(runs[r].placement[1].nodes) = 1
        /\ Len(runs[r].placement[1].unmet) = 1
        /\ Len(runs[r].created) = 1
        /\ Named(runs[r].created[1]) # {}

---------------------------------------------------------------------------
(* C8 *)

\* every Pending pod either lacks the condition or belongs to a DaemonSet
NothingToPlace ==
    \A k \in DOMAIN pods :
        ~CarriesUnschedulable(pods[k]) \/ OwnedByDaemonSet(pods[k])

\* C8 as stated: in a cluster whose Pending pods all lack the condition
\* or belong to a DaemonSet, no NodeRequest is created and every reconcile
\* that returned has returned Ok.
C8_AsStated ==
    NothingToPlace =>
        /\ node_requests = {}
        /\ \A r \in DOMAIN runs : runs[r].result # "Err"

\* C8, amended: in such a cluster no NodeRequest is created, and every
\* reconcile whose pod list call succeeded (or that made none) has
\* returned Ok.
C8_NothingCreated ==
    NothingToPlace =>
        /\ node_requests = {}
        /\ \A r \in DOMAIN runs :
              runs[r].result = "Err" =>
                  /\ runs[r].calls.list = 1
                  /\ runs[r].calls.offerings = 0

\* an unschedulable DaemonSet pod whose reconcile_pod went through the
\* list and returned Ok, and a controller_loop_single that returned Ok
C8_Witness ==
    /\ NothingToPlace
    /\ \E r \in DOMAIN runs :
          /\ runs[r].kind = "reconcile_pod"
          /\ CarriesUnschedulable(runs[r].pod[1])
          /\ OwnedByDaemonSet(runs[r].pod[1])
          /\ runs[r].result = "Ok"
          /\ runs[r].calls.list = 1
    /\ \E r \in DOMAIN runs :
          /\ runs[r].kind = "controller_loop_single"
          /\ runs[r].result = "Ok"
    /\ offerings(provider).ret # <<>>

---------------------------------------------------------------------------
(* C9 *)

\* the reconciles that got a result from reconcile_pods
Planned == {r \in Reconciles : runs[r].placement # None}

\* every reconcile that gathered saw the same catalogue (the Pending pods
\* never change)
SameInputs ==
    \A r1, r2 \in DOMAIN runs :
        (runs[r1].state # None /\ runs[r2].state # None) =>
            runs[r1].state = runs[r2].state

AllReturned == \A r \in DOMAIN runs : runs[r].pc = "done"

---------------------------------------------------------------------------
(* C10 *)

\* the record of a reconcile_pod that did nothing
DidNothing(run) ==
    /\ run.pc = "done"
    /\ run.result = "Ok"
    /\ run.action = Some(await_change)
    /\ run.calls = [list |-> 0, offerings |-> 0, solve |-> 0, create |-> 0]
    /\ run.placement = None
    /\ run.created = <<>>

\* the step is a call of reconcile_pod for a pod without the condition
CalledForOtherPod ==
    /\ Len(runs') = Len(runs) + 1
    /\ runs'[Len(runs')].kind = "reconcile_pod"
    /\ ~CarriesUnschedulable(runs'[Len(runs')].pod[1])

\* C10: reconcile_pod called for a pod that does not carry the condition
\* PodScheduled=False with reason Unschedulable returns await_change at
\* once: no pod list, no offerings call, no solve, no NodeRequest
\* creation, and the cluster, the provider and the other reconciles are
\* left as they were.
C10_AwaitChange ==
    /\ [](\A r \in DOMAIN runs :
            (/\ runs[r].kind = "reconcile_pod"
             /\ ~CarriesUnschedulable(runs[r].pod[1])) => DidNothing(runs[r]))
    /\ [][CalledForOtherPod =>
            /\ DidNothing(runs'[Len(runs')])
            /\ SubSeq(runs', 1, Len(runs)) = runs
            /\ UNCHANGED <<pods, provider, node_requests, memo>>]_vars

\* reconcile_pod answered await_change for a pod that is not scheduled for
\* another reason, in a cluster where another reconcile created a
\* NodeRequest
C10_Witness ==
    /\ \E r \in DOMAIN runs :
          /\ runs[r].kind = "reconcile_pod"
          /\ PodCondition("PodScheduled", "False", Some("SchedulerError"))
                 \in ConditionsOf(runs[r].pod[1])
          /\ runs[r].action = Some(await_change)
    /\ node_requests # {}

---------------------------------------------------------------------------
(* C11 *)

\* slot r holds a reconcile_pod of a pod that carries the condition
OfUnschedulablePod(r) ==
    /\ r \in DOMAIN runs
    /\ runs[r].kind = "reconcile_pod"
    /\ CarriesUnschedulable(runs[r].pod[1])

\* C11: every reconcile of an unschedulable pod comes to an end, and at
\* its end the runtime holds one Action for it: a requeue after 30 seconds
\* when it completed without error, a requeue after 5 seconds when it
\* failed (at the pod list, the quantity parsing, the solve or a
\* NodeRequest create); never an Action without a requeue.
C11_OneRequeue ==
    /\ [](\A r \in DOMAIN runs :
            (OfUnschedulablePod(r) /\ runs[r].pc = "done") =>
                /\ runs[r].result \in {"Ok", "Err"}
                /\ runs[r].result = "Ok" =>
                      runs[r].action = <<[requeue_after |-> <<30>>]>>
                /\ runs[r].result = "Err" =>
                      /\ runs[r].action = <<[requeue_after |-> <<5>>]>>
                      /\ runs[r].error \in {"Other", "Solver", "Kube"})
    /\ \A r \in 1..MaxReconciles :
          (OfUnschedulablePod(r) /\ runs[r].pc # "done")
              ~> (OfUnschedulablePod(r) /\ runs[r].pc = "done")

\* one pod's reconcile failed at a NodeRequest create after another
\* pod's reconcile had completed
C11_Witness ==
    \E r, q \in DOMAIN runs :
        /\ OfUnschedulablePod(r) /\ OfUnschedulablePod(q)
        /\ runs[r].result = "Ok"
        /\ runs[r].created # <<>>
        /\ runs[r].action = Some(requeue(30))
        /\ runs[q].result = "Err"
        /\ runs[q].error = "Kube"
        /\ runs[q].action = Some(requeue(5))

---------------------------------------------------------------------------
(* C12 *)

\* from some point on the reconcile of the pod in slot r never completes
\* without error
FailsEveryTime(r) == <>[](OfUnschedulablePod(r) /\ runs[r].result # "Ok")

\* C12: under fair scheduling, a pod that stays Pending and unschedulable
\* and whose reconcile fails every time is reconciled again infinitely
\* often, whatever happens to the reconciles of other pods.
C12_RevisitedForever ==
    \A r \in 1..MaxReconciles :
        FailsEveryTime(r) => []<><<Fire(r)>>_vars

\* a pod being reconciled again after MaxFailures failures in a row,
\* while the reconcile of another pod has failed too
C12_Witness ==
    \E r, q \in DOMAIN runs :
        /\ r # q
        /\ OfUnschedulablePod(r)
        /\ runs[r].failed_before = MaxFailures
        /\ runs[r].result = "Err"
        /\ runs[q].result = "Err"

---------------------------------------------------------------------------
(* C13 *)

\* the quantities a pod's containers request under one of the four names
\* read by from_pod, with the result of parsing each
RequestsOf(pod) ==
    IF pod.spec = None THEN {}
    ELSE UNION {
        LET c == pod.spec[1].containers[i]
        IN IF c.resources = None THEN {}
           ELSE IF c.resources[1].requests = None THEN {}
           ELSE LET requests == c.resources[1].requests[1]
                IN {[name |-> n, q |-> requests[n]] :
                       n \in DOMAIN requests \cap
                           {"cpu", "memory", "nvidia.com/gpu",
                            "ephemeral-storage"}} :
        i \in DOMAIN pod.spec[1].containers}

\* the quantity is not one the parser of its resource accepts
Rejected(request) ==
    CASE request.name = "cpu" -> parse_cpu(request.q).kind = "Err"
      [] request.name = "memory" ->
             \A b \in BOOLEAN : parse_memory_mib(request.q, b).kind = "Err"
      [] request.name = "nvidia.com/gpu" -> parse(request.q, FitsU32) = None
      [] request.name = "ephemeral-storage" ->
             parse_storage_gib(request.q).kind = "Err"

\* the pods gather parses: those with the condition that no DaemonSet
\* owns
ParsedByGather(pod) == CarriesUnschedulable(pod) /\ ~OwnedByDaemonSet(pod)

BadPods ==
    {k \in DOMAIN pods :
        /\ ParsedByGather(pods[k])
        /\ \E request \in RequestsOf(pods[k]) : Rejected(request)}

\* C13: when a container of an unschedulable pod (one that gather parses)
\* carries an unparseable cpu, memory, nvidia.com/gpu or
\* ephemeral-storage request, PodResources::from_pod returns a
\* QuantityParseError and nothing else for that pod, and every reconcile
\* that gathers returns an error with no ClusterState, without calling
\* solve and without creating a NodeRequest, whatever the other pods ask
\* for.
C13_ParseAborts ==
    BadPods # {} =>
        /\ \A k \in BadPods : \A b \in BOOLEAN :
              /\ from_pod(pods[k], b).kind = "Err"
              /\ DOMAIN from_pod(pods[k], b) = {"kind", "raw"}
              /\ \E request \in RequestsOf(pods[k]) :
                    /\ Rejected(request)
                    /\ from_pod(pods[k], b).raw = request.q
        /\ node_requests = {}
        /\ \A r \in Reconciles :
              /\ runs[r].created = <<>>
              /\ runs[r].calls.solve = 0
              /\ runs[r].state = None
              /\ runs[r].pc \in {"list", "gather", "done"}
              /\ runs[r].pc = "done" => runs[r].result = "Err"

\* a reconcile that failed after the offerings call in a cluster with a
\* pod that could be placed on the offering and a pod with an
\* unparseable request
C13_Witness ==
    /\ BadPods # {}
    /\ \E k \in DOMAIN pods :
          /\ ParsedByGather(pods[k])
          /\ k \notin BadPods
          /\ \E o \in Range(offerings(provider).ret) :
                satisfies(o, from_pod(pods[k], TRUE).value.resources)
    /\ \E r \in Reconciles :
          /\ runs[r].calls.offerings = 1
          /\ runs[r].result = "Err"
          /\ runs[r].error = "Other"

---------------------------------------------------------------------------
(* C14 *)

\* the ids of the listed pods that gather is to parse
ExpectedDemandIds ==
    {PodId(pods[k].metadata.namespace[1], pods[k].metadata.name[1]) :
        k \in {j \in DOMAIN pods : ParsedByGather(pods[j])}}

\* C14: whenever gather has produced a ClusterState, its demand list holds
\* one demand for each listed pod that has one condition entry with type
\* PodScheduled, status False and reason Unschedulable and has no owner
\* reference of kind DaemonSet, and no other demand.
C14_DemandsAreTheUnschedulable ==
    \A r \in DOMAIN runs :
        runs[r].state # None =>
            LET demands == runs[r].state[1].demands
            IN /\ {demands[i].id : i \in DOMAIN demands} = ExpectedDemandIds
               /\ Len(demands) = Cardinality(ExpectedDemandIds)

\* a ClusterState with a demand, gathered where a listed pod has the type
\* and status in one condition entry and the reason in another
C14_Witness ==
    \E r \in DOMAIN runs :
        /\ runs[r].state # None
        /\ runs[r].state[1].demands # <<>>
        /\ \E k \in DOMAIN pods :
              /\ ~CarriesUnschedulable(pods[k])
              /\ \E c \in ConditionsOf(pods[k]) :
                    c.type_ = "PodScheduled" /\ c.status = "False"
              /\ \E c \in ConditionsOf(pods[k]) :
                    c.reason = Some("Unschedulable")

---------------------------------------------------------------------------
(* Direct calls of the functions of offering.rs *)

GpuModels == {"NvidiaT4", "NvidiaA100"}

\* Resources with amounts up to MaxAmount, with and without a GPU model
\* and ephemeral storage
SmallResources ==
    {Resources(c, m, s, g, gm) :
        c \in 1..MaxAmount, m \in 1..MaxAmount,
        s \in {None} \cup {Some(a) : a \in 1..MaxAmount},
        g \in 0..(MaxAmount - 1),
        gm \in {None} \cup {Some(x) : x \in GpuModels}}

SatisfiesCalls ==
    [function : {"satisfies"},
     offering : {Offering("cx22", res, 1) : res \in SmallResources},
     need : SmallResources]

\* decimal numbers around the unit factors and the ends of u32 and u64
Numbers ==
    {<<0>>, <<1>>, <<0, 0, 1, 2>>, <<5, 0, 0>>, <<1, 0, 0, 0>>,
     <<1, 0, 0, 1>>, <<1, 0, 2, 4>>, <<1, 0, 2, 5>>, <<1, 5, 0, 0>>,
     <<1, 0, 4, 8, 5, 7, 6>>, <<1, 0, 4, 8, 5, 7, 7>>,
     <<4, 1, 9, 4, 3, 0, 3>>, <<4, 1, 9, 4, 3, 0, 4>>,
     <<4, 1, 9, 4, 3, 0, 5>>,
     <<1, 0, 7, 3, 7, 4, 1, 8, 2, 4>>, <<1, 0, 7, 3, 7, 4, 1, 8, 2, 5>>,
     <<4, 2, 9, 4, 9, 6, 7, 2, 9, 5>>, <<4, 2, 9, 4, 9, 6, 7, 2, 9, 6>>,
     <<4, 5, 0, 3, 5, 9, 9, 6, 2, 7, 3, 7, 0, 4, 9, 6>>,
     <<4, 5, 0, 3, 5, 9, 9, 6, 2, 7, 3, 7, 0, 4, 9, 7>>,
     <<4, 6, 1, 1, 6, 8, 6, 0, 1, 8, 4, 2, 7, 3, 8, 7, 9, 0, 4>>,
     <<4, 6, 1, 1, 6, 8, 6, 0, 1, 8, 4, 2, 7, 3, 8, 7, 9, 0, 5>>,
     <<1, 8, 4, 4, 6, 7, 4, 4, 0, 7, 3, 7, 0, 9, 5, 5, 1, 6, 1, 5>>,
     <<1, 8, 4, 4, 6, 7, 4, 4, 0, 7, 3, 7, 0, 9, 5, 5, 1, 6, 1, 6>>}

Suffixes == {<<>>, <<"m">>, <<"K", "i">>, <<"M", "i">>, <<"G", "i">>, <<"M">>}

Quantities ==
    {Quantity(number, suffix) : number \in Numbers, suffix \in Suffixes}
    \cup {<<>>, <<"+", "5">>, <<"+", "5", "0", "0", "m">>, <<"-", "1">>,
          <<"1", ".", "5">>, <<"a", "b", "c">>, <<"1", " ", "G", "i">>,
          <<"+">>, <<"1", "+", "1">>}

ParseCalls ==
    [function : {"parse_cpu", "parse_memory_mib", "parse_storage_gib"},
     q : Quantities]

\* the containers of the pods handed to Resources::from_pod
Containers ==
    {Container(None),
     Container(Some(ResourceRequirements(None))),
     make_container(Quantity(<<1, 5, 0, 0>>, <<"m">>),
                    Quantity(<<1>>, <<"G", "i">>)),
     make_container(Quantity(<<2, 5, 0>>, <<"m">>),
                    Quantity(<<1, 5, 3, 6>>, <<"K", "i">>)),
     Container(Some(ResourceRequirements(Some(
         ("nvidia.com/gpu" :> <<"2">>)
         @@ ("ephemeral-storage" :> Quantity(<<1, 0>>, <<"G", "i">>))
         @@ ("example.com/fpga" :> <<"x">>))))),
     Container(Some(ResourceRequirements(Some(
         "ephemeral-storage" :> Quantity(<<1>>, <<"K", "i">>))))),
     make_container(Quantity(<<4, 2, 9, 4, 9, 6, 7, 2, 9, 5>>, <<>>),
                    Quantity(<<4, 1, 9, 4, 3, 0, 3>>, <<"G", "i">>)),
     Container(Some(ResourceRequirements(Some(
         ("nvidia.com/gpu" :> Quantity(<<4, 2, 9, 4, 9, 6, 7, 2, 9, 5>>, <<>>))
         @@ ("ephemeral-storage" :>
                 Quantity(<<4, 2, 9, 4, 9, 6, 7, 2, 9, 5>>, <<"G", "i">>)))))),
     make_container(<<"a", "b", "c">>, Quantity(<<1>>, <<"G", "i">>))}

RECURSIVE ListsOf(_, _)
\* the lists of at most n members of S
ListsOf(S, n) ==
    IF n = 0 THEN {<<>>}
    ELSE LET shorter == ListsOf(S, n - 1)
         IN shorter \cup {Append(l, x) : l \in shorter, x \in S}

\* a PodSpec that has init containers besides its regular containers
PodSpecWithInit(containers, init_containers) ==
    PodSpec(containers) @@ [init_containers |-> Some(init_containers)]

FromPodCalls ==
    [function : {"from_pod"},
     pod : {Pod("pod-a", None, None, None)}
           \cup {Pod("pod-a", None, None, Some(PodSpec(containers))) :
                    containers \in ListsOf(Containers, MaxContainers)}
           \cup {Pod("pod-a", None, None,
                     Some(PodSpecWithInit(containers, <<init>>))) :
                    containers \in ListsOf(Containers, 1),
                    init \in Containers}]

NotReturned == [kind |-> "NotReturned"]

InitOffering ==
    /\ call \in SatisfiesCalls \cup ParseCalls \cup FromPodCalls
    /\ ret = NotReturned
    /\ NoController

Returns(function, results) ==
    /\ call.function = function
    /\ ret = NotReturned
    /\ ret' \in results
    /\ UNCHANGED <<call, pods, provider, node_requests, runs, memo>>

Satisfies ==
    Returns("satisfies", {Ok(satisfies(call.offering, call.need))})

ParseCpu == Returns("parse_cpu", {parse_cpu(call.q)})

\* the result in a build with and in a build without overflow checks
ParseMemoryMib ==
    Returns("parse_memory_mib",
            {parse_memory_mib(call.q, b) : b \in BOOLEAN})

ParseStorageGib == Returns("parse_storage_gib", {parse_storage_gib(call.q)})

FromPod ==
    Returns("from_pod", {Resources_from_pod(call.pod, b) : b \in BOOLEAN})

NextOffering ==
    \/ Satisfies
    \/ ParseCpu
    \/ ParseMemoryMib
    \/ ParseStorageGib
    \/ FromPod

SpecOffering == InitOffering /\ [][NextOffering]_vars

---------------------------------------------------------------------------
(* C15 *)

SatisfiesReturned == call.function = "satisfies" /\ ret # NotReturned

\* the dimensions in which an offering can fall short of a demand
ShortIn(o, r) ==
    {d \in {"cpu", "memory_mib", "gpu", "gpu_model", "ephemeral_storage_gib"} :
        CASE d = "cpu" -> o.cpu < r.cpu
          [] d = "memory_mib" -> o.memory_mib < r.memory_mib
          [] d = "gpu" -> o.gpu < r.gpu
          [] d = "gpu_model" ->
                 r.gpu_model # None /\ o.gpu_model # r.gpu_model
          [] d = "ephemeral_storage_gib" ->
                 /\ r.ephemeral_storage_gib # None
                 /\ \A have \in Range(o.ephemeral_storage_gib) :
                       have < r.ephemeral_storage_gib[1]}

\* the demand is at most the offering in every component
ComponentwiseLeq(r, o) ==
    /\ r.cpu <= o.cpu
    /\ r.memory_mib <= o.memory_mib
    /\ r.gpu <= o.gpu
    /\ r.gpu_model \in {None, o.gpu_model}
    /\ \/ r.ephemeral_storage_gib = None
       \/ \E have \in Range(o.ephemeral_storage_gib) :
             r.ephemeral_storage_gib[1] <= have

\* C15: o.satisfies(r) is true exactly when o.cpu >= r.cpu,
\* o.memory_mib >= r.memory_mib, o.gpu >= r.gpu, the GPU models are equal
\* whenever r names one and o's ephemeral storage is at least r's whenever
\* r specifies one: true whenever r is componentwise at most o, false
\* whenever a dimension is short.
C15_Satisfies ==
    SatisfiesReturned =>
        LET o == call.offering.resources
            r == call.need
        IN /\ ret.value = TRUE <=>
                 /\ o.cpu >= r.cpu
                 /\ o.memory_mib >= r.memory_mib
                 /\ o.gpu >= r.gpu
                 /\ r.gpu_model # None => o.gpu_model = r.gpu_model
                 /\ r.ephemeral_storage_gib # None =>
                        /\ o.ephemeral_storage_gib # None
                        /\ o.ephemeral_storage_gib[1]
                               >= r.ephemeral_storage_gib[1]
           /\ ComponentwiseLeq(r, o) => ret.value = TRUE
           /\ ShortIn(o, r) # {} => ret.value = FALSE
           /\ ret.value \in BOOLEAN

\* satisfies has refused a demand that is short only in the GPU model,
\* the offering having another model
C15_Witness ==
    /\ SatisfiesReturned
    /\ ShortIn(call.offering.resources, call.need) = {"gpu_model"}
    /\ call.offering.resources.gpu_model # None
    /\ call.need.ephemeral_storage_gib # None
    /\ ret.value = FALSE

---------------------------------------------------------------------------
(* C16 *)

RECURSIVE Times(_, _)
\* x * d for d a power of 1024, or a number up to 1024 * 1024
Times(x, d) ==
    IF d > 1024 * 1024 THEN Times(MulAdd(x, 1024, 0), d \div 1024)
    ELSE MulAdd(x, d, 0)

RECURSIVE Less(_, _)
\* x < y, for numbers without leading zero digits
Less(x, y) ==
    IF Len(x) # Len(y) THEN Len(x) < Len(y)
    ELSE IF x = <<>> THEN FALSE
    ELSE IF x[Len(x)] # y[Len(y)] THEN x[Len(x)] < y[Len(y)]
    ELSE Less(Norm(SubSeq(x, 1, Len(x) - 1)), Norm(SubSeq(y, 1, Len(y) - 1)))

\* the number a quantity begins with and the suffix it ends with, for the
\* quantities that are an optional sign, digits and a suffix
SuffixOf(q) ==
    LET letters == {i \in DOMAIN q : q[i] \notin Range(Digits) \cup {"+"}}
    IN IF letters = {} THEN <<>>
       ELSE SubSeq(q, CHOOSE i \in letters : \A j \in letters : i <= j, Len(q))

NumberOf(q) ==
    LET digits == SubSeq(q, 1, Len(q) - Len(SuffixOf(q)))
    IN Decimal(IF digits # <<>> /\ digits[1] = "+" THEN Tail(digits)
               ELSE digits, <<>>)

\* the exact quantity in the unit of the result, as a fraction: how many
\* units one of the number is worth (mul) or how many of the number make a
\* unit (div)
UnitOf(function, suffix) ==
    CASE function = "parse_cpu" /\ suffix = <<>> -> [mul |-> 1, div |-> 1]
      [] function = "parse_cpu" /\ suffix = <<"m">> ->
             [mul |-> 1, div |-> 1000]
      [] function = "parse_memory_mib" /\ suffix = <<"G", "i">> ->
             [mul |-> 1024, div |-> 1]
      [] function = "parse_memory_mib" /\ suffix = <<"M", "i">> ->
             [mul |-> 1, div |-> 1]
      [] function = "parse_memory_mib" /\ suffix = <<"K", "i">> ->
             [mul |-> 1, div |-> 1024]
      [] function = "parse_memory_mib" /\ suffix = <<>> ->
             [mul |-> 1, div |-> 1048576]
      [] function = "parse_storage_gib" /\ suffix = <<"G", "i">> ->
             [mul |-> 1, div |-> 1]
      [] function = "parse_storage_gib" /\ suffix = <<"M", "i">> ->
             [mul |-> 1, div |-> 1024]
      [] function = "parse_storage_gib" /\ suffix = <<"K", "i">> ->
             [mul |-> 1, div |-> 1048576]
      [] function = "parse_storage_gib" /\ suffix = <<>> ->
             [mul |-> 1, div |-> 1073741824]

\* c is the ceiling of n * mul / div: n * mul <= c * div < n * mul + div
IsCeiling(c, n, unit) ==
    LET exact == Times(n, unit.mul)
        got == Times(c, unit.div)
    IN /\ ~Less(got, exact)
       /\ Less(got, Add(exact, Times(<<1>>, unit.div)))

ParseReturned ==
    /\ call.function \in {"parse_cpu", "parse_memory_mib", "parse_storage_gib"}
    /\ ret # NotReturned

\* C16: for every quantity that parse_cpu, parse_memory_mib or
\* parse_storage_gib accepts, the number returned is the ceiling of the
\* exact quantity in the unit of the result (cores; MiB; GiB): never
\* rounded down, wrapped or truncated.
C16_RoundsUp ==
    ParseReturned /\ ret.kind = "Ok" =>
        IsCeiling(ret.value, NumberOf(call.q),
                  UnitOf(call.function, SuffixOf(call.q)))

\* The results that are as C16 states: every accepted quantity whose
\* exact result is below 2^32.
RoundsUpWithinU32 ==
    ParseReturned /\ ret.kind = "Ok" =>
        LET unit == UnitOf(call.function, SuffixOf(call.q))
            n == NumberOf(call.q)
        IN (\E c \in {div_ceil(Times(n, unit.mul), unit.div)} : FitsU32(c))
               => IsCeiling(ret.value, n, unit)

\* parse_memory_mib has accepted a number of bytes that is 2^32 MiB or
\* more and returned a number below 2^32
C16_Witness ==
    /\ ParseReturned
    /\ call.function = "parse_memory_mib"
    /\ SuffixOf(call.q) = <<>>
    /\ ret.kind = "Ok"
    /\ ~FitsU32(div_ceil(NumberOf(call.q), 1048576))
    /\ FitsU32(ret.value)
    /\ Value(ret.value) = 1

---------------------------------------------------------------------------
(* C17 *)

FromPodReturned == call.function = "from_pod" /\ ret # NotReturned

\* the regular containers of the pod
RegularContainers(pod) ==
    IF pod.spec = None THEN <<>> ELSE pod.spec[1].containers

\* the requests of a container: none when it has no resources or no
\* requests
RequestsIn(container) ==
    IF container.resources = None THEN <<>>
    ELSE IF container.resources[1].requests = None THEN <<>>
    ELSE container.resources[1].requests[1]

\* what a container asks of a resource, parsed on its own: zero when it
\* does not request it
ParsedAlone(container, name) ==
    IF name \notin DOMAIN RequestsIn(container) THEN <<>>
    ELSE LET q == RequestsIn(container)[name]
         IN CASE name = "cpu" -> parse_cpu(q).value
              [] name = "memory" -> parse_memory_mib(q, FALSE).value
              [] name = "nvidia.com/gpu" -> parse(q, FitsU32)[1]
              [] name = "ephemeral-storage" -> parse_storage_gib(q).value

RECURSIVE SumOfRequests(_, _)
\* the sum over the containers, as a number of any size
SumOfRequests(containers, name) ==
    IF containers = <<>> THEN <<>>
    ELSE Add(ParsedAlone(containers[1], name),
             SumOfRequests(Tail(containers), name))

RequestedBySome(containers, name) ==
    \E i \in DOMAIN containers : name \in DOMAIN RequestsIn(containers[i])

\* C17: the Resources that Resources::from_pod returns have cpu,
\* memory_mib and gpu equal to the sum, over the regular containers of the
\* pod, of the container's own parsed request (zero for a container
\* without requests): 0 cpu and 0 memory for a pod without spec or
\* requests; ephemeral storage is None unless a container requests it.
C17_SumOfContainers ==
    FromPodReturned /\ ret.kind = "Ok" =>
        LET containers == RegularContainers(call.pod)
        IN /\ ret.value.cpu = SumOfRequests(containers, "cpu")
           /\ ret.value.memory_mib = SumOfRequests(containers, "memory")
           /\ ret.value.gpu = SumOfRequests(containers, "nvidia.com/gpu")
           /\ (\A i \in DOMAIN containers : RequestsIn(containers[i]) = <<>>)
                  => ret.value.cpu = <<>> /\ ret.value.memory_mib = <<>>
           /\ ret.value.ephemeral_storage_gib = None
                  <=> ~RequestedBySome(containers, "ephemeral-storage")

\* The results that are as C17 states: those of the pods whose sums are
\* below 2^32.
SumOfContainersWithinU32 ==
    (/\ FromPodReturned
     /\ ret.kind = "Ok"
     /\ \A name \in {"cpu", "memory", "nvidia.com/gpu", "ephemeral-storage"} :
           FitsU32(SumOfRequests(RegularContainers(call.pod), name)))
        => /\ C17_SumOfContainers
           /\ ret.value.gpu_model = None
           /\ ret.value.ephemeral_storage_gib # None =>
                  ret.value.ephemeral_storage_gib[1] =
                      SumOfRequests(RegularContainers(call.pod),
                                    "ephemeral-storage")

\* from_pod has returned Resources for two containers whose cpu requests
\* add up to 2^32 or more
C17_Witness ==
    /\ FromPodReturned
    /\ ret.kind = "Ok"
    /\ Len(RegularContainers(call.pod)) = 2
    /\ ~FitsU32(SumOfRequests(RegularContainers(call.pod), "cpu"))
    /\ FitsU32(ret.value.cpu)

---------------------------------------------------------------------------
(* Solving against the filtered and against the full catalogue *)

\* pod shapes without and with a GPU; from_pod names no GPU model
FilterShapes == <<NoGpu(1, 3), NoGpu(2, 4), Resources(1, 3, None, 1, None)>>

FilterPool ==
    {Offering("cx22", NoGpu(2, 6), 1),
     Offering("tiny", NoGpu(1, 3), 10),
     Offering("free", NoGpu(1, 3), 0),
     Offering("gpu", Resources(2, 6, None, 1, Some("NvidiaT4")), 100)}

FilterDemandLists ==
    {[k \in DOMAIN sh |->
         PodResources(PodId("default", PodNames[k]), FilterShapes[sh[k]])] :
        sh \in {s \in SeqsUpTo(1..Len(FilterShapes), MaxDemands) :
                  \A i \in 1..(Len(s) - 1) : s[i] <= s[i + 1]}
               \cup {<<1, 1, 1>>}}

FilterCatalogues ==
    {<<>>} \cup {<<o>> : o \in FilterPool}
        \cup {s \in {<<o, p>> : o \in FilterPool, p \in FilterPool} :
                    s[1] # s[2]}

InitFilter ==
    /\ call \in [demands : FilterDemandLists, offerings : FilterCatalogues]
    /\ ret = NotReturned
    /\ NoController

\* what solve can return for the state as reconcile_pods calls it, with
\* the suitable offerings
SolveFiltered(state) ==
    solve(state.demands, suitable_offerings(state), SolveOptionsDefault)

\* what solve can return for the state with all its offerings
SolveFull(state) ==
    solve(state.demands, state.offerings, SolveOptionsDefault)

\* reconcile_pods, which solves against the suitable offerings, and one
\* solve against the catalogue
SolveFilteredAndFull ==
    /\ ret = NotReturned
    /\ ret' \in
          {[filtered |-> a.placement, actions |-> a.demands,
            full |-> b.solution] :
              a \in reconcile_pods(ClusterState(call.demands, call.offerings)),
              b \in SolveFull(ClusterState(call.demands, call.offerings))}
    /\ UNCHANGED <<call, pods, provider, node_requests, runs, memo>>

NextFilter == SolveFilteredAndFull

SpecFilter == InitFilter /\ [][NextFilter]_vars

---------------------------------------------------------------------------
(* C18 *)

TotalNodeCost(solution) ==
    SumSeq([k \in DOMAIN solution.nodes |->
        solution.nodes[k].offering.cost_per_hour])

\* the unmet demands and the total node cost of a placement
Outcome(solution) ==
    [unmet |-> Range(solution.unmet), cost |-> TotalNodeCost(solution)]

\* C18: solving the demands against suitable_offerings yields the same set
\* of unmet demands and the same total node cost as solving them against
\* the full catalogue: the outcome of either solve is an outcome the other
\* solve can give.
C18_FilterKeepsOutcome ==
    ret # NotReturned =>
        LET state == ClusterState(call.demands, call.offerings)
        IN /\ Outcome(ret.filtered)
                  \in {Outcome(b.solution) : b \in SolveFull(state)}
           /\ Outcome(ret.full)
                  \in {Outcome(a.solution) : a \in SolveFiltered(state)}

\* The filter keeps the number of unmet demands and the total node cost
\* where no demand asks for a GPU: there an offering satisfies a demand
\* exactly when it has the cpu and memory, which is all solve looks at.
FilterKeepsCostWithoutGpu ==
    (/\ ret # NotReturned
     /\ \A d \in DOMAIN call.demands : call.demands[d].resources.gpu = 0)
        => /\ Len(ret.filtered.unmet) = Len(ret.full.unmet)
           /\ TotalNodeCost(ret.filtered) = TotalNodeCost(ret.full)

\* the filter has removed the offering without a GPU, the only demand
\* asks for a GPU, and the solve against the full catalogue has put the
\* pod on the offering without a GPU at a lower cost
C18_Witness ==
    /\ ret # NotReturned
    /\ Len(call.demands) = 1
    /\ call.demands[1].resources.gpu = 1
    /\ Len(call.offerings) = 2
    /\ Len(suitable_offerings(ClusterState(call.demands, call.offerings))) = 1
    /\ ret.filtered.unmet = <<>>
    /\ ret.full.unmet = <<>>
    /\ \E k \in DOMAIN ret.full.nodes :
          /\ ret.full.nodes[k].pods # <<>>
          /\ ret.full.nodes[k].offering.resources.gpu = 0
    /\ TotalNodeCost(ret.full) < TotalNodeCost(ret.filtered)

---------------------------------------------------------------------------
(* C19 *)

Min(a, b) == IF a <= b THEN a ELSE b

\* how many pods of the given resources one node of the offering takes
FitOn(offering, need) ==
    IF ~satisfies(offering, need) THEN 0
    ELSE Min(offering.resources.cpu \div need.cpu,
             offering.resources.memory_mib \div need.memory_mib)

CeilDiv(n, m) == (n + m - 1) \div m

\* the demands are n identical pods, at most MaxInstances nodes' worth,
\* and the catalogue is one offering that takes at least one of them
IdenticalPodsOneOffering ==
    /\ call.demands # <<>>
    /\ \A d \in DOMAIN call.demands :
          call.demands[d].resources = call.demands[1].resources
    /\ Len(call.offerings) = 1
    /\ FitOn(call.offerings[1], call.demands[1].resources) >= 1
    /\ Len(call.demands)
           <= MaxInstances * FitOn(call.offerings[1], call.demands[1].resources)

\* C19: for a non-empty demand list reconcile_pods returns at most as
\* many provisioning actions as there are demands, every node of the
\* placement having at least one pod; for n identical pods of which m fit
\* on the only offering, n at most the replicas times m, it returns
\* exactly ceil(n/m) actions.
C19_AtMostOnePerDemand ==
    (ret # NotReturned /\ call.demands # <<>>) =>
        /\ Len(ret.actions) <= Len(call.demands)
        /\ \A k \in DOMAIN ret.filtered.nodes :
              ret.filtered.nodes[k].pods # <<>>
        /\ IdenticalPodsOneOffering =>
              Len(ret.actions) =
                  CeilDiv(Len(call.demands),
                          FitOn(call.offerings[1], call.demands[1].resources))

\* C19 holds where every offering costs more than nothing (and less than
\* the penalty): an empty node then adds to the objective.
AtMostOnePerDemandWhenPriced ==
    (\A k \in DOMAIN call.offerings :
        /\ call.offerings[k].cost_per_hour > 0
        /\ call.offerings[k].cost_per_hour < DefaultPenalty)
        => C19_AtMostOnePerDemand

\* reconcile_pods has returned two provisioning actions for one demand:
\* a node with the pod and an empty node of the same offering
C19_Witness ==
    /\ ret # NotReturned
    /\ Len(call.demands) = 1
    /\ Len(call.offerings) = 1
    /\ Len(ret.actions) = 2
    /\ \E k \in DOMAIN ret.filtered.nodes : ret.filtered.nodes[k].pods = <<>>
    /\ ret.filtered.kind = "AllPlaced"

\* reconcile_pods has returned two actions for three identical pods of
\* which two fit on the only offering
C19_PackedWitness ==
    /\ ret # NotReturned
    /\ IdenticalPodsOneOffering
    /\ Len(call.demands) = 3
    /\ FitOn(call.offerings[1], call.demands[1].resources) = 2
    /\ Len(ret.actions) = 2

---------------------------------------------------------------------------
(* providers/fake.rs: create and delete, one atomic step at a time *)

RECURSIVE to_string(_)
\* the decimal digits of n, as format!("{n}") writes them
to_string(n) ==
    IF n < 10 THEN <<Digits[n + 1]>>
    ELSE to_string(n \div 10) \o <<Digits[(n % 10) + 1]>>

NodeId(string) == [node_id |-> string]

\* next_node_id with a load of next_id and no store
next_node_id_without_add(next_id) ==
    [ret |-> NodeId(<<"fake-node-">> \o to_string(next_id)),
     next_id |-> next_id]

\* next_node_id: fetch_add(1) on next_id, which returns the value before
\* the addition, and the id formatted from it
next_node_id(next_id) ==
    [ret |-> NodeId(<<"fake-node-">> \o to_string(next_id)),
     next_id |-> next_id + 1]

CreateCall(offering, result_node_id) ==
    [offering |-> offering, result_node_id |-> result_node_id]

DeleteCall(node_id) == [node_id |-> node_id]

SucceedingCreateBehaviors ==
    {"Succeed", "SucceedButNodeNeverJoins", "SucceedAfterDelay"}

FailingCreateBehaviors ==
    {"OfferingUnavailable", "CreationFailed", "JoinTimeout", "InternalError"}

\* the ProviderError a failing behaviour makes create return
ProviderError(behavior) ==
    CASE behavior = "OfferingUnavailable" -> "OfferingUnavailable"
      [] behavior = "CreationFailed" -> "CreationFailed"
      [] behavior = "JoinTimeout" -> "JoinTimeout"
      [] behavior = "InternalError" -> "Internal"
      [] behavior = "Fail" -> "CreationFailed"

\* a FakeProvider: the state behind the mutex and the atomic next_id, both
\* shared by its clones.  FakeProvider::new() and the builder methods
\* on_next_create, on_next_delete, with_default_create and
\* with_default_delete.
FakeProvider(create_behaviors, default_create, delete_behaviors, default_delete) ==
    [state |-> [offerings_behavior |-> Static(<<>>),
                create_behaviors |-> create_behaviors,
                delete_behaviors |-> delete_behaviors,
                default_create |-> default_create,
                default_delete |-> default_delete,
                create_calls |-> <<>>,
                delete_calls |-> <<>>],
     next_id |-> 1]

FakeProviders ==
    {FakeProvider(c[1], c[2], d[1], d[2]) :
        c \in {<<<<>>, "Succeed">>,
               <<<<"SucceedAfterDelay", "CreationFailed">>,
                 "SucceedButNodeNeverJoins">>,
               <<<<"OfferingUnavailable", "InternalError", "Succeed">>,
                 "JoinTimeout">>},
        d \in {<<<<"Fail", "Noop">>, "Succeed">>}}

\* the handles through which the provider is called: the provider and a
\* clone of it
Handles == {"provider", "provider.clone()"}

\* runs holds the calls made, in the order they were made; ret holds the
\* results returned, in the order they were returned.  offering is the
\* argument of a create, node_id that of a delete, returned_before the
\* number of results returned when the call was made.
Call(kind, handle, offering, node_id, returned_before) ==
    [kind |-> kind, handle |-> handle, offering |-> offering,
     node_id |-> node_id, returned_before |-> returned_before,
     pc |-> "pop", behavior |-> "", result |-> NotReturned]

\* the offering the creates through a handle ask for: cx22 through the
\* provider, tiny through the clone
AskedThrough(handle) == IF handle = "provider" THEN Cx22 ELSE Tiny

InitProvider ==
    /\ call = <<>>
    /\ ret = <<>>
    /\ pods = <<>>
    /\ provider \in FakeProviders
    /\ node_requests = {}
    /\ runs = <<>>
    /\ memo = {}

\* a task calls create on the provider or on a clone
Create(handle) ==
    /\ Len(runs) < MaxCalls
    /\ runs' = Append(runs, Call("create", handle,
                               Some(AskedThrough(handle)), None, Len(ret)))
    /\ UNCHANGED <<call, ret, pods, provider, node_requests, memo>>

\* the NodeIds returned so far
ReturnedIds ==
    {ret[k].result.value : k \in {j \in DOMAIN ret :
        runs[ret[j].run].kind = "create" /\ ret[j].result.kind = "Ok"}}

\* a task calls delete for a node id it holds, or for one never returned
Delete(handle, node_id) ==
    /\ Len(runs) < MaxCalls
    /\ runs' = Append(runs, Call("delete", handle, None, Some(node_id),
                               Len(ret)))
    /\ UNCHANGED <<call, ret, pods, provider, node_requests, memo>>

\* "create_behaviors.pop_front().unwrap_or_else(default_create)" under the
\* lock, and the arm of the match that needs nothing shared
CreatePop(r) ==
    /\ runs[r].kind = "create"
    /\ runs[r].pc = "pop"
    /\ LET queue == provider.state.create_behaviors
           behavior == IF queue = <<>> THEN provider.state.default_create
                       ELSE Head(queue)
       IN /\ provider' = [provider EXCEPT !.state.create_behaviors =
                             IF queue = <<>> THEN <<>> ELSE Tail(queue)]
          /\ runs' = [runs EXCEPT
                ![r].behavior = behavior,
                ![r].pc = CASE behavior = "SucceedAfterDelay" -> "sleep"
                            [] behavior \in SucceedingCreateBehaviors
                                   -> "next_node_id"
                            [] OTHER -> "log",
                ![r].result =
                    IF behavior \in FailingCreateBehaviors
                    THEN [kind |-> "Err", error |-> ProviderError(behavior)]
                    ELSE NotReturned]
    /\ UNCHANGED <<call, ret, pods, node_requests, memo>>

\* tokio::time::sleep(d).await is over
CreateWake(r) ==
    /\ runs[r].kind = "create"
    /\ runs[r].pc = "sleep"
    /\ runs' = [runs EXCEPT ![r].pc = "next_node_id"]
    /\ UNCHANGED <<call, ret, pods, provider, node_requests, memo>>

\* Ok(self.next_node_id())
CreateNextNodeId(r) ==
    /\ runs[r].kind = "create"
    /\ runs[r].pc = "next_node_id"
    /\ LET drawn == next_node_id(provider.next_id)
       IN /\ provider' = [provider EXCEPT !.next_id = drawn.next_id]
          /\ runs' = [runs EXCEPT ![r].result = Ok(drawn.ret),
                                  ![r].pc = "log"]
    /\ UNCHANGED <<call, ret, pods, node_requests, memo>>

\* create that logs the calls that succeeded only
CreateLog_successes_only(r) ==
    /\ runs[r].kind = "create"
    /\ runs[r].pc = "log"
    /\ provider' = [provider EXCEPT !.state.create_calls =
          IF runs[r].result.kind = "Ok"
          THEN Append(@, CreateCall(runs[r].offering[1],
                                    Some(runs[r].result.value)))
          ELSE @]
    /\ runs' = [runs EXCEPT ![r].pc = "done"]
    /\ ret' = Append(ret, [run |-> r, result |-> runs[r].result])
    /\ UNCHANGED <<call, pods, node_requests, memo>>

\* the call is logged under the lock and create returns its result
CreateLog(r) ==
    /\ runs[r].kind = "create"
    /\ runs[r].pc = "log"
    /\ provider' = [provider EXCEPT !.state.create_calls =
          Append(@, CreateCall(runs[r].offering[1],
                     IF runs[r].result.kind = "Ok"
                     THEN Some(runs[r].result.value) ELSE None))]
    /\ runs' = [runs EXCEPT ![r].pc = "done"]
    /\ ret' = Append(ret, [run |-> r, result |-> runs[r].result])
    /\ UNCHANGED <<call, pods, node_requests, memo>>

\* "delete_behaviors.pop_front().unwrap_or_else(default_delete)" under the
\* lock
DeletePop(r) ==
    /\ runs[r].kind = "delete"
    /\ runs[r].pc = "pop"
    /\ LET queue == provider.state.delete_behaviors
           behavior == IF queue = <<>> THEN provider.state.default_delete
                       ELSE Head(queue)
       IN /\ provider' = [provider EXCEPT !.state.delete_behaviors =
                             IF queue = <<>> THEN <<>> ELSE Tail(queue)]
          /\ runs' = [runs EXCEPT ![r].behavior = behavior, ![r].pc = "log"]
    /\ UNCHANGED <<call, ret, pods, node_requests, memo>>

\* the call is logged under the lock and delete returns by its behaviour
DeleteLog(r) ==
    /\ runs[r].kind = "delete"
    /\ runs[r].pc = "log"
    /\ provider' = [provider EXCEPT !.state.delete_calls =
          Append(@, DeleteCall(runs[r].node_id[1]))]
    /\ LET result == IF runs[r].behavior = "Fail"
                     THEN [kind |-> "Err", error |-> ProviderError("Fail")]
                     ELSE Ok(<<>>)
       IN /\ runs' = [runs EXCEPT ![r].pc = "done", ![r].result = result]
          /\ ret' = Append(ret, [run |-> r, result |-> result])
    /\ UNCHANGED <<call, pods, node_requests, memo>>

NextProvider ==
    \/ \E handle \in Handles : Create(handle)
    \/ \E handle \in Handles :
          \E node_id \in ReturnedIds \cup {NodeId(<<"fake-node-", "1">>)} :
              Delete(handle, node_id)
    \/ \E r \in DOMAIN runs : CreatePop(r)
    \/ \E r \in DOMAIN runs : CreateWake(r)
    \/ \E r \in DOMAIN runs : CreateNextNodeId(r)
    \/ \E r \in DOMAIN runs : CreateLog(r)
    \/ \E r \in DOMAIN runs : DeletePop(r)
    \/ \E r \in DOMAIN runs : DeleteLog(r)

SpecProvider == InitProvider /\ [][NextProvider]_vars

---------------------------------------------------------------------------
(* C20 *)

\* the positions in ret of the creates that returned Ok
SuccessfulCreates ==
    {k \in DOMAIN ret :
        runs[ret[k].run].kind = "create" /\ ret[k].result.kind = "Ok"}

\* the creates that have drawn an id, returned or not
HaveDrawn ==
    {r \in DOMAIN runs : runs[r].kind = "create" /\ runs[r].result.kind = "Ok"}

\* the number n of the id fake-node-n, 0 if the id is of another form
NumberOfId(id) ==
    LET fits == {n \in 1..MaxCalls :
                    id = NodeId(<<"fake-node-">> \o to_string(n))}
    IN IF fits = {} THEN 0 ELSE CHOOSE n \in fits : TRUE

C20_DeleteBetween ==
    /\ Len(ret) = 3
    /\ ret[1].result = Ok(NodeId(<<"fake-node-", "1">>))
    /\ runs[ret[2].run].kind = "delete"
    /\ runs[ret[2].run].returned_before = 1
    /\ ret[3].result = Ok(NodeId(<<"fake-node-", "2">>))

---------------------------------------------------------------------------
(* providers/fake.rs: the builder methods, and create and delete on a     *)
(* provider that a chain of them has built                                *)

\* FakeProvider::new()
FakeProviderNew == FakeProvider(<<>>, "Succeed", <<>>, "Succeed")

\* on_next_create with push_front for push_back
on_next_create_front(self, behavior) ==
    [self EXCEPT !.state.create_behaviors = <<behavior>> \o @]

\* on_next_create: create_behaviors.push_back(behavior)
on_next_create(self, behavior) ==
    [self EXCEPT !.state.create_behaviors = Append(@, behavior)]

\* on_next_delete: delete_behaviors.push_back(behavior)
on_next_delete(self, behavior) ==
    [self EXCEPT !.state.delete_behaviors = Append(@, behavior)]

with_default_create(self, behavior) ==
    [self EXCEPT !.state.default_create = behavior]

with_default_delete(self, behavior) ==
    [self EXCEPT !.state.default_delete = behavior]

\* one call of a builder method
BuilderCall(method, behavior) == [method |-> method, behavior |-> behavior]

RECURSIVE Built(_, _)
\* self after the builder calls of the chain, first call first
Built(self, chain) ==
    IF chain = <<>> THEN self
    ELSE Built(CASE chain[1].method = "on_next_create" ->
                        on_next_create(self, chain[1].behavior)
                 [] chain[1].method = "on_next_delete" ->
                        on_next_delete(self, chain[1].behavior)
                 [] chain[1].method = "with_default_create" ->
                        with_default_create(self, chain[1].behavior)
                 [] chain[1].method = "with_default_delete" ->
                        with_default_delete(self, chain[1].behavior),
               Tail(chain))

\* the chains the providers are built by: none; two behaviours queued for
\* create and one for delete with the defaults set after the queueing;
\* one for each with the defaults set before it; a default set twice
BuilderChains ==
    {<<>>,
     <<BuilderCall("on_next_create", "OfferingUnavailable"),
       BuilderCall("on_next_delete", "Fail"),
       BuilderCall("on_next_create", "Succeed"),
       BuilderCall("with_default_create", "JoinTimeout"),
       BuilderCall("with_default_delete", "Noop")>>,
     <<BuilderCall("with_default_delete", "Noop"),
       BuilderCall("with_default_create", "JoinTimeout"),
       BuilderCall("on_next_create", "OfferingUnavailable"),
       BuilderCall("on_next_delete", "Fail")>>,
     <<BuilderCall("with_default_create", "CreationFailed"),
       BuilderCall("on_next_create", "SucceedAfterDelay"),
       BuilderCall("with_default_create", "Succeed"),
       BuilderCall("on_next_delete", "Noop"),
       BuilderCall("on_next_delete", "Fail")>>}

\* call holds the chain that built the provider
InitBuilt ==
    /\ call \in BuilderChains
    /\ ret = <<>>
    /\ pods = <<>>
    /\ provider = Built(FakeProviderNew, call)
    /\ node_requests = {}
    /\ runs = <<>>
    /\ memo = {}

SpecBuilt == InitBuilt /\ [][NextProvider]_vars

---------------------------------------------------------------------------
(* C21 *)

\* the behaviours a chain queued with the method, first queued first
QueuedBy(chain, method) ==
    LET at == SelectSeq([i \in DOMAIN chain |-> i],
                        LAMBDA i : chain[i].method = method)
    IN [k \in DOMAIN at |-> chain[at[k]].behavior]

\* the default the chain configured with the method: the last one set,
\* or Succeed if none was
DefaultBy(chain, method) ==
    LET at == {i \in DOMAIN chain : chain[i].method = method}
    IN IF at = {} THEN "Succeed"
       ELSE chain[CHOOSE i \in at : \A j \in at : j <= i].behavior

\* the calls of a kind that have taken their behaviour
Popped(kind) ==
    {r \in DOMAIN runs : runs[r].kind = kind /\ runs[r].pc # "pop"}

\* the behaviour the i-th call is to use
IthOf(queued, default, i) ==
    IF i <= Len(queued) THEN queued[i] ELSE default

\* run r of the kind takes its behaviour in this step
Pops(r, kind) ==
    /\ r \in DOMAIN runs
    /\ runs[r].kind = kind
    /\ runs[r].pc = "pop"
    /\ runs'[r].pc # "pop"

\* C21: the i-th create call (the i-th to take its behaviour under the
\* lock) uses the i-th behaviour queued with on_next_create while there
\* is one and the default of with_default_create (Succeed if none was set)
\* after that, whether the default was set before or after the queueing;
\* the same for delete with on_next_delete and with_default_delete; what
\* was queued or taken for the one kind does not change what the other
\* kind uses.
C21_QueueThenDefault ==
    [][\A r \in DOMAIN runs :
          /\ Pops(r, "create") =>
                runs'[r].behavior =
                    IthOf(QueuedBy(call, "on_next_create"),
                          DefaultBy(call, "with_default_create"),
                          Cardinality(Popped("create")) + 1)
          /\ Pops(r, "delete") =>
                runs'[r].behavior =
                    IthOf(QueuedBy(call, "on_next_delete"),
                          DefaultBy(call, "with_default_delete"),
                          Cardinality(Popped("delete")) + 1)]_vars

\* on a provider whose defaults were set before the queueing, the first
\* create used the queued behaviour, a delete the queued Fail, and the
\* second create the default
C21_Witness ==
    /\ call # <<>>
    /\ call[1].method = "with_default_delete"
    /\ \E c1, c2, d \in DOMAIN runs :
          /\ c1 < c2
          /\ runs[c1].kind = "create"
          /\ runs[c1].behavior = "OfferingUnavailable"
          /\ runs[c2].kind = "create"
          /\ runs[c2].behavior = "JoinTimeout"
          /\ runs[d].kind = "delete"
          /\ runs[d].behavior = "Fail"
          /\ runs[d].pc = "done"

---------------------------------------------------------------------------
(* controller_loop_single called again and again on a provider with an    *)
(* offerings sequence                                                     *)

\* FakeProvider::new().with_offerings_sequence(seq)
with_offerings_sequence(seq) == FakeProviderState(Sequence(seq))

OfferingSequences ==
    {<<>>, <<<<Tiny>>>>, <<<<Tiny>>, <<Tiny, Cx22>>>>, <<<<Cx22>>, <<>>>>}

\* call holds the sequence the provider was configured with
InitSequence ==
    /\ call \in OfferingSequences
    /\ ret = NotCalled
    /\ pods \in Clusters
    /\ provider = with_offerings_sequence(call)
    /\ node_requests = {}
    /\ runs = <<>>
    /\ memo = {}

\* controller_loop_single is called when the call before has returned
ControllerLoopSingleAgain ==
    /\ \A r \in DOMAIN runs : runs[r].pc = "done"
    /\ ControllerLoopSingle

NextSequence ==
    \/ ControllerLoopSingleAgain
    \/ \E r \in DOMAIN runs : ListPods(r)
    \/ \E r \in DOMAIN runs : ListPodsFails(r)
    \/ \E r \in DOMAIN runs : Gather(r)
    \/ \E r \in DOMAIN runs : SolveFails(r)
    \/ \E r \in DOMAIN runs : CreateNodeRequest(r)
    \/ \E r \in DOMAIN runs : CreateNodeRequestFails(r)

SpecSequence == InitSequence /\ [][NextSequence]_vars

---------------------------------------------------------------------------
(* C22 *)

\* s_min(k, n) of the sequence configured, the empty catalogue for the
\* empty sequence
SMin(k) == IF call = <<>> THEN <<>> ELSE call[Min(k, Len(call))]

\* what is left of the sequence before the k-th offerings call
LeftBefore(k) ==
    IF call = <<>> THEN <<>>
    ELSE SubSeq(call, Min(k, Len(call)), Len(call))

\* the reconciles that have made their offerings call
Asked == {r \in DOMAIN runs : runs[r].calls.offerings >= 1}

\* C22 as stated: the k-th reconcile solves against s_min(k, n).
C22_AsStated ==
    \A k \in DOMAIN runs :
        runs[k].state # None => runs[k].state[1].offerings = SMin(k)

\* C22, amended: a reconcile calls offerings once, after its pod list
\* succeeded, and never when the list failed; the k-th reconcile to make
\* the call gets s_min(k, n) as its catalogue and leaves the sequence at
\* s_min(k + 1, n); an empty sequence gives the empty catalogue every
\* time.
C22_OnePerOfferingsCall ==
    [][\A r \in DOMAIN runs :
          /\ runs'[r].calls.offerings <= 1
          /\ runs'[r].calls.offerings = 1 => runs'[r].calls.list = 1
          /\ runs'[r].state # None => runs'[r].calls.offerings = 1
          /\ (runs[r].pc = "list" /\ runs'[r].pc = "done") =>
                runs'[r].calls.offerings = 0 /\ provider' = provider
          /\ (runs[r].calls.offerings = 0 /\ runs'[r].calls.offerings = 1) =>
                /\ provider.offerings_behavior.seq
                       = LeftBefore(Cardinality(Asked) + 1)
                /\ provider'.offerings_behavior.seq
                       = LeftBefore(Cardinality(Asked) + 2)
                /\ runs'[r].state # None =>
                      runs'[r].state[1].offerings
                          = SMin(Cardinality(Asked) + 1)]_vars

\* two reconciles have made their offerings call on a sequence of two
\* different catalogues: the first got the first, the second the second
C22_Witness ==
    /\ Len(call) = 2
    /\ call[1] # call[2]
    /\ Len(runs) = 2
    /\ runs[1].state # None
    /\ runs[1].state[1].offerings = call[1]
    /\ runs[2].state # None
    /\ runs[2].state[1].offerings = call[2]
    /\ provider.offerings_behavior.seq = <<call[2]>>

\* the second reconcile on a sequence of one catalogue got it again
C22_Sticks ==
    /\ Len(call) = 1
    /\ Len(runs) = 2
    /\ runs[1].state # None
    /\ runs[2].state # None
    /\ runs[2].state[1].offerings = call[1]

---------------------------------------------------------------------------
(* C23 *)

\* the positions in ret of the calls of a kind, in the order of their
\* return
ReturnsOf(kind) ==
    SelectSeq([k \in DOMAIN ret |-> k],
              LAMBDA k : runs[ret[k].run].kind = kind)

\* the entry create_calls is to hold for the create that returned at
\* position k of ret
EntryOfCreate(k) ==
    CreateCall(runs[ret[k].run].offering[1],
               IF ret[k].result.kind = "Ok" THEN Some(ret[k].result.value)
               ELSE None)

IsPrefix(s, t) == Len(s) <= Len(t) /\ s = SubSeq(t, 1, Len(s))

\* C23: after any calls, create_calls holds one entry for each create
\* that has returned and no other, with the offering the call asked for
\* and with result_node_id the NodeId returned if the call succeeded,
\* none if it failed; delete_calls holds one entry for each delete that
\* has returned, failed ones included, with the node id it was called
\* for; no step removes or rewrites an entry of either log.
C23_AuditLog ==
    /\ [](/\ provider.state.create_calls =
                [i \in DOMAIN ReturnsOf("create") |->
                    EntryOfCreate(ReturnsOf("create")[i])]
          /\ provider.state.delete_calls =
                [i \in DOMAIN ReturnsOf("delete") |->
                    DeleteCall(runs[ret[ReturnsOf("delete")[i]].run].node_id[1])])
    /\ [][/\ IsPrefix(provider.state.create_calls,
                      provider'.state.create_calls)
          /\ IsPrefix(provider.state.delete_calls,
                      provider'.state.delete_calls)]_vars

\* a create through the clone that succeeded, a create through the
\* provider that failed and a delete that failed are in the logs
C23_Witness ==
    /\ Len(provider.state.create_calls) = 2
    /\ provider.state.create_calls[1]
           = CreateCall(Tiny, Some(NodeId(<<"fake-node-", "1">>)))
    /\ provider.state.create_calls[2] = CreateCall(Cx22, None)
    /\ Len(provider.state.delete_calls) = 1
    /\ \E k \in DOMAIN ret :
          /\ runs[ret[k].run].kind = "delete"
          /\ ret[k].result.kind = "Err"

---------------------------------------------------------------------------
(* node_request.rs: the NodeRequest as create_node_request makes it *)

\* the NodeRequests a step adds to the cluster
Added == node_requests' \ node_requests

\* the action a reconcile standing at "create" is about to carry out
NextAction(r) == runs[r].actions[runs[r].next]

\* C26: every NodeRequest that create_node_request creates starts in phase
\* Pending with no node_id and an empty event log, and its target_offering
\* is exactly the one of the provisioning action it was created for; a
\* create adds that one NodeRequest and touches no other.
C26_StartsPending ==
    [][\A nr \in Added :
          /\ node_requests' = node_requests \cup {nr}
          /\ StatusOf(nr).phase = "Pending"
          /\ StatusOf(nr).node_id = None
          /\ StatusOf(nr).events = <<>>
          /\ \E r \in DOMAIN runs :
                /\ runs[r].pc = "create"
                /\ runs'[r].calls.create = runs[r].calls.create + 1
                /\ nr.metadata.name[1] = NextAction(r).pool
                /\ nr.spec = NodeRequestSpec(
                       NextAction(r).target_offering.instance_type)]_vars

\* two NodeRequests were created, one for tiny and one for cx22, and both
\* are Pending without a node
C26_Witness ==
    /\ \E a, b \in node_requests :
          /\ a.spec.target_offering = "tiny"
          /\ b.spec.target_offering = "cx22"
          /\ StatusOf(a) = NodeRequestStatusDefault
          /\ StatusOf(b) = NodeRequestStatusDefault
    /\ \E r \in DOMAIN runs : runs[r].calls.create > 0

---------------------------------------------------------------------------
(* controller.rs, node_request.rs: what becomes of a created NodeRequest *)

\* the names create_node_request can give under run(): the pool and the
\* uuid drawn
RequestNames ==
    {<<"PoolsAreFake", <<r, k, c>>>> :
        r \in 1..MaxReconciles, k \in 1..MaxDemands, c \in 0..MaxNodeRequests}

\* the NodeRequests of the cluster with that name
Existing(name) == {nr \in node_requests : nr.metadata.name = name}

\* the entries of the provider's create log that ask for the offering nr
\* targets
CreateCallsFor(nr) ==
    {k \in DOMAIN provider.create_calls :
        provider.create_calls[k].offering.instance_type
            = nr.spec.target_offering}

\* nr was handed to the provider: create was called with its target
\* offering, and if the provider accepted, nr is Provisioning with the
\* node_id recorded and an event in its log
HandedToProvider(nr) ==
    \E k \in CreateCallsFor(nr) :
        provider.create_calls[k].result_node_id # None =>
            /\ StatusOf(nr).phase = "Provisioning"
            /\ StatusOf(nr).node_id = provider.create_calls[k].result_node_id
            /\ StatusOf(nr).events # <<>>

\* C25: every NodeRequest the controller creates is eventually handed to
\* the provider (create is called with its target offering) and, when the
\* provider accepts, moves from Pending to Provisioning with the node_id
\* recorded and an event appended.
C25_HandedToProvider ==
    \A name \in RequestNames :
        (Existing(name) # {}) ~>
            (\E nr \in Existing(name) : HandedToProvider(nr))

\* C25, what the controller does instead: every NodeRequest stays as it
\* was created (Pending, no node_id, no event), and the provider's create
\* and delete are never called.
OnlyCreated ==
    /\ \A nr \in node_requests : StatusOf(nr) = NodeRequestStatusDefault
    /\ provider.create_calls = <<>>
    /\ provider.delete_calls = <<>>

\* the controller removes no NodeRequest
NoneRemoved == [][node_requests \subseteq node_requests']_vars

\* a NodeRequest exists, later reconciles of the pod have run to their end
\* (the latest after a failed one), and the provider was not asked
C25_Witness ==
    /\ node_requests # {}
    /\ \E r \in DOMAIN runs :
          /\ runs[r].pc = "done"
          /\ runs[r].result = "Err"
          /\ runs[r].failed_before > 0
    /\ provider.create_calls = <<>>

---------------------------------------------------------------------------
(* optimiser.rs: the replicas of an offering *)

\* how many of the returned nodes are of the offering
NodesOf(nodes, offering) ==
    Cardinality({k \in DOMAIN nodes : nodes[k].offering = offering})

\* C27: solve never returns more than MaxInstances nodes of the same
\* offering (the source's max_instances is 10): the candidates are the
\* pairs (t, 0..MaxInstances-1), offering-index-major, and the demands
\* beyond what MaxInstances nodes of every offering hold are reported
\* unmet in an IncompletePlacement.
C27_ReplicasCapped ==
    (Called /\ ret.solved) =>
        /\ Len(ret.candidate_offerings)
               = Len(call.offerings) * MaxInstances
        /\ \A t \in DOMAIN call.offerings : \A i \in 0..(MaxInstances - 1) :
              ret.candidate_offerings[(t - 1) * MaxInstances + i + 1]
                  = <<t, i>>
        /\ \A t \in DOMAIN call.offerings :
              NodesOf(ret.solution.nodes, call.offerings[t]) <= MaxInstances
        /\ Len(ret.solution.unmet)
               >= MinUnmet(call.demands, call.offerings, MaxInstances)
        /\ MinUnmet(call.demands, call.offerings, MaxInstances) > 0 =>
              ret.solution.kind = "IncompletePlacement"

\* every replica of the one offering is returned as a node, and a demand
\* that fits an empty node of it is unmet, the penalty being the default
C27_Witness ==
    /\ Called /\ ret.solved
    /\ Len(call.offerings) = 1
    /\ call.options.unmet_demand_penalty = DefaultPenalty
    /\ NodesOf(ret.solution.nodes, call.offerings[1]) = MaxInstances
    /\ ret.solution.kind = "IncompletePlacement"
    /\ \E k \in DOMAIN ret.solution.unmet :
          Fits(call.offerings[1], ret.solution.unmet[k])

---------------------------------------------------------------------------
(* optimiser.rs: feasibility of the constraint system *)

\* the point with every demand unmet, no placement and no candidate
\* active
AllUnmetPoint(num_demands, num_candidates) ==
    create_decision_variables(num_demands, num_candidates,
                              [d \in 1..num_demands |-> 0], {})

\* C28: for every non-empty demand list and non-empty offering list the
\* constraint system has a feasible point, the one with every demand unmet
\* and no candidate active, so solve does not fail for infeasibility:
\* where no demand fits any offering that point is an optimum of the
\* backend, and a call that got to the backend returned a placement.
C28_AlwaysFeasible ==
    (call.demands # <<>> /\ call.offerings # <<>>) =>
        LET candidate_offerings ==
                build_candidate_offerings(call.offerings, MaxInstances)
        IN /\ add_constraints(call.demands, call.offerings,
                  candidate_offerings,
                  AllUnmetPoint(Len(call.demands), Len(candidate_offerings)))
           /\ (\A d \in DOMAIN call.demands : \A t \in DOMAIN call.offerings :
                   ~Fits(call.offerings[t], call.demands[d])) =>
                 AllUnmetPoint(Len(call.demands), Len(candidate_offerings))
                     \in Minimise(call.demands, call.offerings,
                                  candidate_offerings,
                                  call.options.unmet_demand_penalty)
           /\ Called =>
                 /\ ret.solved
                 /\ ret.solution.kind \in {"AllPlaced", "IncompletePlacement"}

\* no demand fits any offering: the all-unmet point is the only feasible
\* one, and solve returned it
C28_Witness ==
    /\ Called /\ ret.solved
    /\ Len(call.demands) > 1
    /\ \A d \in DOMAIN call.demands : \A t \in DOMAIN call.offerings :
          ~Fits(call.offerings[t], call.demands[d])
    /\ ret.solution = IncompletePlacement(<<>>, call.demands)

---------------------------------------------------------------------------
(* controller.rs, optimiser.rs: the node a pod is assigned to *)

\* the pods reconcile_pods' placement puts on node k, as demands
AssignedTo(k) ==
    {DemandOf(call.demands, ret.filtered.nodes[k].pods[j]) :
        j \in DOMAIN ret.filtered.nodes[k].pods}

\* C29: every pod that reconcile_pods' placement assigns to a node is one
\* the node's offering satisfies on its own (Offering::satisfies: cpu,
\* memory, GPU count and model, ephemeral storage).
C29_AssignedWhereSatisfied ==
    ret # NotReturned =>
        \A k \in DOMAIN ret.filtered.nodes : \A demand \in AssignedTo(k) :
            satisfies(ret.filtered.nodes[k].offering, demand.resources)

\* C29, what the placement does guarantee: every node has the cpu and the
\* memory of all its pods together, and where no demand asks for a GPU
\* the offering of a node satisfies each of its pods.
AssignedWhereCpuAndMemoryFit ==
    ret # NotReturned =>
        \A k \in DOMAIN ret.filtered.nodes :
            /\ CpuOf(call.demands, ret.filtered.nodes[k])
                   <= ret.filtered.nodes[k].offering.resources.cpu
            /\ MemoryOf(call.demands, ret.filtered.nodes[k])
                   <= ret.filtered.nodes[k].offering.resources.memory_mib
            /\ (\A d \in DOMAIN call.demands :
                    call.demands[d].resources.gpu = 0) =>
                  \A demand \in AssignedTo(k) :
                      satisfies(ret.filtered.nodes[k].offering,
                                demand.resources)

\* a pod that asks for a GPU shares a node without a GPU with the pod
\* that made the node's offering suitable
C29_Witness ==
    /\ ret # NotReturned
    /\ Len(call.demands) = 2
    /\ Len(ret.filtered.nodes) = 1
    /\ ret.filtered.nodes[1].offering.resources.gpu = 0
    /\ Len(ret.filtered.nodes[1].pods) = 2
    /\ \E demand \in AssignedTo(1) : demand.resources.gpu = 1

---------------------------------------------------------------------------
(* controller.rs: the creates of one reconcile *)

\* the NodeRequest reconcile r created for its k-th action is in the
\* cluster and targets the offering of that action
CreatedFor(r, k) ==
    \E nr \in node_requests :
        /\ nr.metadata.name = runs[r].created[k]
        /\ nr.spec = NodeRequestSpec(
               runs[r].actions[k].target_offering.instance_type)

\* reconcile r returned the error of its j-th create_node_request
FailedAtCreate(r) ==
    /\ runs[r].pc = "done"
    /\ runs[r].result = "Err"
    /\ runs[r].error = "Kube"

\* the names reconcile r gave to the NodeRequests it created
NamesOf(r) == {runs[r].created[k] : k \in DOMAIN runs[r].created}

\* C30: the NodeRequests of one reconcile are created one at a time in
\* solution order and are not rolled back.  At every moment the creates
\* made are those of the first actions, in order; when the j-th create
\* fails the reconcile returns the error at once (a reconcile_pod asks for
\* a requeue after 5 s), the j-1 NodeRequests created before remain and
\* the actions after the j-th are not attempted; a later reconcile that
\* runs to its end creates a NodeRequest for every one of its actions, on
\* top of those the failed one left.  No step removes a NodeRequest.
C30_NoRollback ==
    /\ [](\A r \in DOMAIN runs :
            /\ Len(runs[r].created) <= Len(runs[r].actions)
            /\ \A k \in DOMAIN runs[r].created : CreatedFor(r, k)
            /\ runs[r].result \in {"Running", "Ok"} =>
                  /\ runs[r].calls.create = Len(runs[r].created)
                  /\ runs[r].next = Len(runs[r].created) + 1
            /\ (runs[r].result = "Ok" /\ runs[r].state # None) =>
                  Len(runs[r].created) = Len(runs[r].actions)
            /\ FailedAtCreate(r) =>
                  /\ runs[r].calls.create = Len(runs[r].created) + 1
                  /\ runs[r].next = runs[r].calls.create
                  /\ runs[r].next <= Len(runs[r].actions)
                  /\ runs[r].kind = "reconcile_pod" =>
                        runs[r].action = Some(requeue(5))
                  /\ \A q \in DOMAIN runs :
                        (q > r /\ runs[q].result = "Ok") =>
                            /\ NamesOf(q) \cap NamesOf(r) = {}
                            /\ Cardinality(node_requests)
                                   >= Len(runs[r].created)
                                        + Len(runs[q].actions))
    /\ [][/\ node_requests \subseteq node_requests'
          /\ Cardinality(node_requests') <= Cardinality(node_requests) + 1
          /\ \A r \in DOMAIN runs :
                /\ Len(runs'[r].created) <= Len(runs[r].created) + 1
                /\ SubSeq(runs'[r].created, 1, Len(runs[r].created))
                       = runs[r].created]_vars

\* the second create of a reconcile failed after its first succeeded; the
\* next reconcile of the same pod created both its NodeRequests, and the
\* cluster holds three
C30_Witness ==
    /\ Len(runs) = 2
    /\ FailedAtCreate(1)
    /\ runs[1].kind = "reconcile_pod"
    /\ Len(runs[1].created) = 1
    /\ Len(runs[1].actions) = 2
    /\ runs[2].pod = runs[1].pod
    /\ runs[2].result = "Ok"
    /\ Len(runs[2].created) = 2
    /\ Cardinality(node_requests) = 3

====
